---- MODULE Spec2Model ----
(***************************************************************************)
(* Model of simple-markdown-builder: the translation orchestrator          *)
(* (translations.ts), the build pipeline (build / createPlan), the         *)
(* translation-group index (sitemap.ts) and the URL helpers (template.ts,  *)
(* utils).                                                                 *)
(*                                                                         *)
(* Text is modelled as a sequence of atoms.  An atom is a one-character    *)
(* string ("[", "$", "/", " ") or a word that stands for a non-empty run   *)
(* of characters of [a-z0-9] which no pattern of the program splits        *)
(* ("index", "page", "en").  ".html", ".md" and the pieces of the          *)
(* placeholder token are atoms of their own.                               *)
(***************************************************************************)
EXTENDS Integers, Sequences, FiniteSets, TLC

(***************************************************************************)
(* Bounds of the model.                                                    *)
(***************************************************************************)
MaxParts == 3
MaxHrefLen == 2

(***************************************************************************)
(* String helpers (JavaScript String operations on atom sequences).        *)
(***************************************************************************)
\* s.slice(i-1, j) in 1-based inclusive positions; empty when i > j
Slice(s, i, j) == IF i > j THEN <<>> ELSE SubSeq(s, i, j)

\* p occurs in s starting at position i
OccursAt(s, p, i) ==
  /\ i >= 1
  /\ i + Len(p) - 1 <= Len(s)
  /\ \A k \in 1..Len(p) : s[i + k - 1] = p[k]

\* s.indexOf(p) + 1 : the first position at which p occurs, 0 when it does not
IndexOf(s, p) ==
  LET hits == { i \in 1..(Len(s) + 1) : OccursAt(s, p, i) }
  IN IF hits = {} THEN 0 ELSE CHOOSE i \in hits : \A j \in hits : i <= j

\* the first position >= from whose atom is in set cs, 0 when there is none
FirstIn(s, cs, from) ==
  LET hits == { i \in from..Len(s) : s[i] \in cs }
  IN IF hits = {} THEN 0 ELSE CHOOSE i \in hits : \A j \in hits : i <= j

RECURSIVE Flatten(_)
Flatten(ss) == IF ss = <<>> THEN <<>> ELSE Head(ss) \o Flatten(Tail(ss))

WhiteSpace == {" ", "\n"}

\* value.trim() is the empty string
IsBlank(s) == \A i \in 1..Len(s) : s[i] \in WhiteSpace

(***************************************************************************)
(* String.prototype.replace(pattern, replacement) with a string pattern:   *)
(* the first occurrence is replaced, and the replacement string is         *)
(* expanded: "$$" inserts "$", "$&" the matched text, "$`" the text before *)
(* the match and "$'" the text after it.                                   *)
(***************************************************************************)
RECURSIVE GetSubstitution(_, _, _, _)
GetSubstitution(repl, matched, before, after) ==
  IF repl = <<>> THEN <<>>
  ELSE IF Head(repl) = "$" /\ Len(repl) >= 2 /\ repl[2] \in {"$", "&", "`", "'"}
    THEN (CASE repl[2] = "$" -> <<"$">>
            [] repl[2] = "&" -> matched
            [] repl[2] = "`" -> before
            [] repl[2] = "'" -> after)
         \o GetSubstitution(Slice(repl, 3, Len(repl)), matched, before, after)
    ELSE <<Head(repl)>> \o GetSubstitution(Tail(repl), matched, before, after)

StringReplace(s, pattern, repl) ==
  LET i == IndexOf(s, pattern)
  IN IF i = 0 THEN s
     ELSE LET before == Slice(s, 1, i - 1)
              after == Slice(s, i + Len(pattern), Len(s))
          IN before \o GetSubstitution(repl, pattern, before, after) \o after

(***************************************************************************)
(* translateMarkdownBody (translations.ts 218-264).                        *)
(***************************************************************************)
Digits == <<"0", "1", "2", "3", "4", "5", "6", "7", "8", "9">>

\* `@@LINK_${linkIndex}@@`
Placeholder(linkIndex) == <<"@@LINK_", Digits[linkIndex + 1], "@@">>

\* One match of linkPattern, /\[([^[\]]+?)\]\(([^)]+?)\)/, starting at position i:
\* [ last |-> position of the closing parenthesis, text, href ], or last = 0.
LinkMatchAt(s, i) ==
  LET j == FirstIn(s, {"[", "]"}, i + 1)
      k == IF j = 0 THEN 0 ELSE FirstIn(s, {")"}, j + 2)
      ok == /\ i <= Len(s) /\ s[i] = "["
            /\ j > i + 1 /\ s[j] = "]"
            /\ j + 1 <= Len(s) /\ s[j + 1] = "("
            /\ k > j + 2
  IN IF ok THEN [last |-> k, text |-> Slice(s, i + 1, j - 1), href |-> Slice(s, j + 2, k - 1)]
     ELSE [last |-> 0, text |-> <<>>, href |-> <<>>]

\* the matches of the global pattern, left to right, from position i on
RECURSIVE LinkMatches(_, _)
LinkMatches(s, i) ==
  IF i > Len(s) THEN <<>>
  ELSE LET m == LinkMatchAt(s, i)
       IN IF m.last = 0 THEN LinkMatches(s, i + 1)
          ELSE <<[text |-> m.text, href |-> m.href]>> \o LinkMatches(s, m.last + 1)

\* body.replace(linkPattern, callback): every match becomes its placeholder
RECURSIVE ReplaceLinks(_, _, _)
ReplaceLinks(s, i, linkIndex) ==
  IF i > Len(s) THEN <<>>
  ELSE LET m == LinkMatchAt(s, i)
       IN IF m.last = 0 THEN <<s[i]>> \o ReplaceLinks(s, i + 1, linkIndex)
          ELSE Placeholder(linkIndex) \o ReplaceLinks(s, m.last + 1, linkIndex + 1)

\* the `links` array built by the callback
ExtractLinks(s) ==
  LET ms == LinkMatches(s, 1)
  IN [n \in 1..Len(ms) |->
        [placeholder |-> Placeholder(n - 1), text |-> ms[n].text, href |-> ms[n].href]]

(***************************************************************************)
(* The external translation capability.  It is text in, text out: a        *)
(* translator kind fixes what it does to the words of a text.  Every kind  *)
(* returns the placeholder tokens, punctuation and white space unchanged.  *)
(***************************************************************************)
TranslatorKinds == {"same", "word", "long"}

TranslateAtom(kind, a) ==
  IF a \in {"a", "b"}
  THEN (CASE kind = "same" -> <<a>>
          [] kind = "word" -> <<IF a = "a" THEN "b" ELSE "a">>
          [] kind = "long" -> <<a, a>>)
  ELSE IF a = "page" /\ kind = "word" THEN <<"pagina">>
  ELSE <<a>>

RECURSIVE TranslateText(_, _)
TranslateText(kind, s) ==
  IF s = <<>> THEN <<>> ELSE TranslateAtom(kind, Head(s)) \o TranslateText(kind, Tail(s))

\* translateField without its glossary lookup: blank values are returned as they are
TranslateFieldText(kind, value) ==
  IF IsBlank(value) THEN value ELSE TranslateText(kind, value)

\* translatedLinks.reduce((acc, link) => acc.replace(link.placeholder, `[..](..)`), translatedBody)
RECURSIVE ReinsertLinks(_, _)
ReinsertLinks(acc, links) ==
  IF links = <<>> THEN acc
  ELSE LET link == Head(links)
       IN ReinsertLinks(
            StringReplace(acc, link.placeholder,
                          <<"[">> \o link.text \o <<"]", "(">> \o link.href \o <<")">>),
            Tail(links))

TranslateLinkTexts(kind, links) ==
  [n \in 1..Len(links) |->
     [placeholder |-> links[n].placeholder,
      text |-> TranslateFieldText(kind, links[n].text),
      href |-> links[n].href]]

translateMarkdownBody(kind, body) ==
  ReinsertLinks(TranslateFieldText(kind, ReplaceLinks(body, 1, 0)),
                TranslateLinkTexts(kind, ExtractLinks(body)))

(***************************************************************************)
(* Inputs of translateMarkdownBody: a body is up to MaxParts parts, each a  *)
(* plain atom, a link [text](href) or the literal text of a placeholder.   *)
(***************************************************************************)
PlainAtoms == {"a", " "}
HrefAtoms == {"u", "$", "&"}
LinkTexts == {<<"a">>}
Hrefs == UNION { [1..n -> HrefAtoms] : n \in 1..MaxHrefLen }

MakeLink(text, href) == <<"[">> \o text \o <<"]", "(">> \o href \o <<")">>

BodyParts ==
  { <<c>> : c \in PlainAtoms }
    \cup { MakeLink(t, h) : t \in LinkTexts, h \in Hrefs }
    \cup { Placeholder(1) }

Bodies == { Flatten(ps) : ps \in UNION { [1..n -> BodyParts] : n \in 0..MaxParts } }

VARIABLES
  bBody,        \* translateMarkdownBody: the source body
  bKind,        \* the translator it is given
  bPc,          \* "start", "extracted", "bodyDone", "linksDone", "done"
  bLinks,       \* the links array
  bText,        \* bodyWithPlaceholders, then translatedBody, then the result
  files,        \* the content directory: path -> [meta, body, mtime]
  clock,        \* the time of the file system
  edits,        \* the number of documents written by the author so far
  runs,         \* the number of runs started so far
  pc,           \* where the running build() or ensureTranslations() is
  mode,         \* "build" or "translate": what was called
  runConfig,    \* the BuilderConfig of the run
  refresh,      \* refreshTranslations of the run
  queue,        \* translationPlans still to translate
  nPlans,       \* the number of TranslatePlans the run created
  calls,        \* the number of translateText calls of the run
  writes,       \* the translated documents the run wrote, in order
  translatorInstance,  \* "undefined", "translator" or "null"
  translationWarned,   \* the module's flag
  warnings,     \* the number of 'Skipping automatic translations' warnings so far
  hadKey,       \* whether a call of the process was configured with an API key
  glossaryCache,       \* the module's cache: a set of [key, id]
  glossaries,   \* the glossaries that exist at the translation service
  lookups,      \* per glossary lookup at the service: [defaultLang, targetLang]
  used,         \* per translateField call: [defaultLang, targetLang, glossary]
  failure,      \* whether a translateText call of the run failed
  filesAtFailure,      \* the content directory when the failing plan was started
  quiet,        \* the config of the last run if it was a completed
                \* ensureTranslations(refresh = false) and no document was
                \* written since, else NoConfig
  repeat,       \* whether the run repeats such a run
  plans,        \* the RenderPlans of build()
  groups,       \* the translation-group index
  pages,        \* per plan, what renderTemplate put into its page
  outputs,      \* the documents the run wrote: [output, sourcePath of its plan]
  sitemap,      \* sitemap.xml: whether the run wrote it, and its rows
  tTemplate,    \* renderTemplate: the text of the template
  tBody,        \* the rendered body of the page
  tMeta,        \* the PageMeta of the page
  tPc,          \* "start", "substituted", "returned", "thrown" ("idle": not used)
  tText,        \* the text as rendered so far
  callPc,       \* a function called on its own: "idle", or its name and
                \* "called", then "returned" or "thrown"
  callArgs,     \* its arguments
  callResult,   \* what it returned
  stage,        \* build(): "idle", "ensure", "collect", "plans", "render",
                \* "links", "returned", "rejected"
  stageConfig,  \* its configuration
  content,      \* the documents of the content directory
  pending,      \* ensureTranslations: the documents still to translate
  translated,   \* the translated documents it wrote
  collected,    \* markdownFiles of build()
  created,      \* the documents whose createPlan has resolved
  grouped,      \* the plans groupByTranslation was given: none, or one set
  pagesRendered,  \* the plans whose renderTemplate has returned
  pagesThrown,   \* the plans whose renderTemplate has thrown
  pagesWritten,  \* the plans whose page is written
  sitemapDone,  \* whether sitemap.xml is written
  scanned,       \* the pages the link validator has read
  flightPc,     \* ensureTranslations, call by call: "idle", "translate", "done", "rejected"
  flightQueue,  \* the TranslatePlans still to translate, the current one first
  flightSent,   \* the translateText calls of the current plan that were made
  flightAnswered, \* those of them the service has answered
  flightWritten, \* the number of translated documents written
  templateFiles, \* the template files: resolved path -> text
  templateCache, \* the module's cache of loadTemplate: resolved path -> text
  homepageTemplateCache, \* the module's cache of loadHomepageTemplate
  reading,      \* the loads that wait for readFile: [cache, path]
  firstRead,    \* per cache and path: the text read by the first load since the last invalidation
  lastLoad,     \* the load that returned last: [cache, path, text]
  cacheEdits,    \* the number of changes of template files so far
  isBuilding,   \* startDevServer: its flag isBuilding
  shouldRebuild, \* its flag shouldRebuild
  building,     \* the number of builds started by queueBuild that have not settled
  buildsStarted, \* the number of builds queueBuild started so far
  buildsFailed, \* the number of them that rejected
  triggers,     \* the number of file-change triggers so far
  waiting,      \* the number of triggers that arrived during the running build
  lastTrigger,  \* the time of the last trigger (0: none)
  lastStart,    \* the time the last build was started (0: none)
  watchClock    \* the number of events of the loop so far

bodyVars == <<bBody, bKind, bPc, bLinks, bText>>
siteVars == <<files, clock, edits, runs, hadKey, warnings, pc, mode, runConfig, refresh, queue, nPlans, calls,
              writes, translatorInstance, translationWarned, glossaryCache, glossaries,
              lookups, used, failure, filesAtFailure, quiet, repeat, plans, groups, pages,
              outputs, sitemap>>
tplVars == <<tTemplate, tBody, tMeta, tPc, tText>>
callVars == <<callPc, callArgs, callResult>>
stageVars == <<stage, stageConfig, content, pending, translated, collected, created, grouped,
               pagesRendered, pagesThrown, pagesWritten, sitemapDone, scanned>>
flightVars == <<flightPc, flightQueue, flightSent, flightAnswered, flightWritten>>
cacheVars == <<templateFiles, templateCache, homepageTemplateCache, reading, firstRead, lastLoad, cacheEdits>>
watchVars == <<isBuilding, shouldRebuild, building, buildsStarted, buildsFailed, triggers, waiting, lastTrigger, lastStart, watchClock>>
vars == <<bodyVars, siteVars, tplVars, callVars, stageVars, flightVars, cacheVars, watchVars>>
\* what the steps of one component leave alone
nonBodyVars == <<siteVars, tplVars, callVars, stageVars, flightVars, cacheVars, watchVars>>
nonSiteVars == <<bodyVars, tplVars, callVars, stageVars, flightVars, cacheVars, watchVars>>
nonTplVars == <<bodyVars, siteVars, callVars, stageVars, flightVars, cacheVars, watchVars>>
nonCallVars == <<bodyVars, siteVars, tplVars, stageVars, flightVars, cacheVars, watchVars>>
nonStageVars == <<bodyVars, siteVars, tplVars, callVars, flightVars, cacheVars, watchVars>>
nonFlightVars == <<bodyVars, siteVars, tplVars, callVars, stageVars, cacheVars, watchVars>>
nonCacheVars == <<bodyVars, siteVars, tplVars, callVars, stageVars, flightVars, watchVars>>
nonWatchVars == <<bodyVars, siteVars, tplVars, callVars, stageVars, flightVars, cacheVars>>

\* no configuration
NoConfig == [translations |-> FALSE, apiKey |-> FALSE, none |-> TRUE]
\* sitemap.xml does not exist
NoSitemap == [written |-> FALSE, rows |-> <<>>]

\* the process as it is loaded, with an empty content directory
SiteLoaded ==
  /\ clock = 0 /\ edits = 0 /\ runs = 0
  /\ pc = "idle" /\ mode = "build" /\ runConfig = NoConfig /\ refresh = FALSE
  /\ queue = <<>> /\ nPlans = 0 /\ calls = 0 /\ writes = <<>>
  /\ translatorInstance = "undefined" /\ translationWarned = FALSE
  /\ warnings = 0 /\ hadKey = FALSE
  /\ glossaryCache = {} /\ glossaries = {} /\ lookups = <<>> /\ used = {}
  /\ failure = FALSE /\ filesAtFailure = <<>> /\ quiet = NoConfig /\ repeat = FALSE
  /\ plans = <<>> /\ groups = <<>> /\ pages = <<>> /\ outputs = {}
  /\ sitemap = NoSitemap

\* no content directory and no run
SiteIdle == files = <<>> /\ SiteLoaded

\* renderTemplate is not called
TplIdle == tTemplate = <<>> /\ tBody = <<>> /\ tMeta = <<>> /\ tPc = "idle" /\ tText = <<>>

\* no function is called on its own
CallIdle == callPc = <<"idle">> /\ callArgs = <<>> /\ callResult = <<>>

\* build() is not followed stage by stage
StageIdle ==
  /\ stage = "idle" /\ stageConfig = <<>> /\ content = {} /\ pending = <<>>
  /\ translated = {} /\ collected = {} /\ created = {} /\ grouped = <<>>
  /\ pagesRendered = {} /\ pagesThrown = {} /\ pagesWritten = {}
  /\ sitemapDone = FALSE /\ scanned = {}

\* ensureTranslations is not followed call by call
FlightIdle ==
  /\ flightPc = "idle" /\ flightQueue = <<>> /\ flightSent = {} /\ flightAnswered = {}
  /\ flightWritten = 0

\* no template was loaded
CacheIdle ==
  /\ templateFiles = <<>> /\ templateCache = <<>> /\ homepageTemplateCache = <<>>
  /\ reading = {} /\ firstRead = <<>> /\ lastLoad = <<>> /\ cacheEdits = 0

\* the watch loop is not running
WatchIdle ==
  /\ isBuilding = FALSE /\ shouldRebuild = FALSE /\ building = 0 /\ buildsStarted = 0
  /\ buildsFailed = 0 /\ triggers = 0 /\ waiting = 0 /\ lastTrigger = 0 /\ lastStart = 0
  /\ watchClock = 0

InitBody ==
  /\ bBody \in Bodies
  /\ bKind \in TranslatorKinds
  /\ bPc = "start"
  /\ bLinks = <<>>
  /\ bText = <<>>
  /\ SiteIdle
  /\ TplIdle /\ CallIdle /\ StageIdle /\ FlightIdle /\ CacheIdle /\ WatchIdle

\* lines 224-240: the pre-pass that replaces every link by a placeholder
BodyExtract ==
  /\ bPc = "start"
  /\ bLinks' = ExtractLinks(bBody)
  /\ bText' = ReplaceLinks(bBody, 1, 0)
  /\ bPc' = "extracted"
  /\ UNCHANGED <<bBody, bKind, nonBodyVars>>

\* lines 242-247: the body is translated with the placeholders in it
BodyTranslate ==
  /\ bPc = "extracted"
  /\ bText' = TranslateFieldText(bKind, bText)
  /\ bPc' = "bodyDone"
  /\ UNCHANGED <<bBody, bKind, bLinks, nonBodyVars>>

\* lines 249-259: the visible text of every link is translated
BodyTranslateLinks ==
  /\ bPc = "bodyDone"
  /\ bLinks' = TranslateLinkTexts(bKind, bLinks)
  /\ bPc' = "linksDone"
  /\ UNCHANGED <<bBody, bKind, bText, nonBodyVars>>

\* lines 261-263: the links are put back in place of their placeholders
BodyReinsert ==
  /\ bPc = "linksDone"
  /\ bText' = ReinsertLinks(bText, bLinks)
  /\ bPc' = "done"
  /\ UNCHANGED <<bBody, bKind, bLinks, nonBodyVars>>

NextBody == BodyExtract \/ BodyTranslate \/ BodyTranslateLinks \/ BodyReinsert

SpecBody == InitBody /\ [][NextBody]_vars

HrefsOf(s) == LET ms == LinkMatches(s, 1) IN [n \in 1..Len(ms) |-> ms[n].href]

\* C1: once translateMarkdownBody has returned, the links of the result are the
\* links of the source body, one for one and in source order, each with the
\* href of the source link, atom for atom.
C1_HrefsPreserved == bPc = "done" => HrefsOf(bText) = HrefsOf(bBody)

(***************************************************************************)
(* Paths (node:path on POSIX) and slugs (frontmatter.ts).                  *)
(***************************************************************************)
\* the sentinel for an absent string field; no text equals it
Undefined == <<"<undefined>">>

\* a ?? b
OrElse(a, b) == IF a = Undefined THEN b ELSE a

RECURSIVE Split(_, _)
\* s.split(sep): the pieces of s between the occurrences of atom sep
Split(s, sep) ==
  LET i == FirstIn(s, {sep}, 1)
  IN IF i = 0 THEN <<s>>
     ELSE <<Slice(s, 1, i - 1)>> \o Split(Slice(s, i + 1, Len(s)), sep)

RECURSIVE Join(_, _)
\* segs.join(sep)
Join(segs, sep) ==
  IF segs = <<>> THEN <<>>
  ELSE IF Len(segs) = 1 THEN segs[1]
  ELSE segs[1] \o <<sep>> \o Join(Tail(segs), sep)

\* path.join(...parts): the non-empty parts joined with "/"
PathJoin(parts) == Join(SelectSeq(parts, LAMBDA x : x # <<>>), "/")

\* path.dirname(p) of a relative path: "." when p has no directory
DirName(p) ==
  LET segs == Split(p, "/")
  IN IF Len(segs) = 1 THEN <<".">> ELSE Join(SubSeq(segs, 1, Len(segs) - 1), "/")

\* path.basename(p)
BaseName(p) == LET segs == Split(p, "/") IN segs[Len(segs)]

\* x.replace(/\.md$/, '')
StripMd(x) == IF x # <<>> /\ x[Len(x)] = ".md" THEN Slice(x, 1, Len(x) - 1) ELSE x

\* extractSlugFromPath(filePath): the file name without its .md extension
extractSlugFromPath(filePath) == StripMd(BaseName(filePath))

\* normalizePathSeparators(p): back slashes become slashes; POSIX paths hold none
normalizePathSeparators(p) == [i \in 1..Len(p) |-> IF p[i] = "\\" THEN "/" ELSE p[i]]

\* toLowerCase() of an atom: "A", "EN" and "Yes" are the atoms of the model with
\* an upper-case letter
LowerAtom(a) == CASE a = "A" -> "a" [] a = "EN" -> "en" [] a = "Yes" -> "yes" [] OTHER -> a

ToLowerCase(s) == [i \in 1..Len(s) |-> LowerAtom(s[i])]

\* atoms that are not runs of [a-z0-9]
Punctuation == {" ", "\n", ".", "/", "_", ":", "$", "&", "[", "]", "(", ")", "\\"}

\* s.trim()
RECURSIVE TrimLeft(_)
TrimLeft(s) == IF s # <<>> /\ Head(s) \in WhiteSpace THEN TrimLeft(Tail(s)) ELSE s
RECURSIVE TrimRight(_)
TrimRight(s) ==
  IF s # <<>> /\ s[Len(s)] \in WhiteSpace THEN TrimRight(Slice(s, 1, Len(s) - 1)) ELSE s
Trim(s) == TrimRight(TrimLeft(s))

\* .replace(/\s+/g, '-').replace(/[^a-z0-9-]/g, '-').replace(/-+/g, '-'):
\* every run of white space, of other punctuation and of hyphens ends as one hyphen
RECURSIVE Hyphenate(_)
Hyphenate(s) ==
  IF s = <<>> THEN <<>>
  ELSE LET rest == Hyphenate(Tail(s))
           a == IF Head(s) \in Punctuation \cup {"-"} THEN "-" ELSE Head(s)
       IN IF a = "-" /\ rest # <<>> /\ Head(rest) = "-" THEN rest ELSE <<a>> \o rest

\* .replace(/^-|-$/g, '')
StripHyphens(s) ==
  LET a == IF s # <<>> /\ Head(s) = "-" THEN Tail(s) ELSE s
  IN IF a # <<>> /\ a[Len(a)] = "-" THEN Slice(a, 1, Len(a) - 1) ELSE a

sanitizeSlugSegment(value) ==
  LET r == StripHyphens(Hyphenate(Trim(ToLowerCase(value))))
  IN IF r = <<>> THEN <<"page">> ELSE r

sanitizeSlug(value) ==
  IF \E i \in 1..Len(value) : value[i] = "/"
  THEN LET segs == Split(value, "/")
           clean == [i \in 1..Len(segs) |-> sanitizeSlugSegment(segs[i])]
       IN Join(SelectSeq(clean, LAMBDA x : Len(x) > 0), "/")
  ELSE sanitizeSlugSegment(value)

\* supportedLangs.includes(x), for a sequence of language tags
Includes(seq, x) == \E i \in 1..Len(seq) : seq[i] = x

sanitizeLang(input, supportedLangs, defaultLang) ==
  LET normalized == ToLowerCase(input)
  IN IF normalized # <<>> /\ Includes(supportedLangs, normalized)
     THEN normalized ELSE defaultLang

inferLangFromPath(relativeSource, supportedLangs, defaultLang) ==
  LET maybeLang == Split(relativeSource, "/")[1]
  IN IF Includes(supportedLangs, maybeLang) THEN maybeLang ELSE defaultLang

\* isBooleanEnabled(value) for a flag that is "absent", TRUE-like or FALSE-like
isBooleanEnabled(value) == value = "true"

\* isTranslateEnabled(meta.translate): the translate flag, disabled when absent
isTranslateEnabled(value) == isBooleanEnabled(value)

(***************************************************************************)
(* URLs (template.ts, utils).                                              *)
(***************************************************************************)
BaseUrl == <<"https://example.com">>

\* url.replace(/\.html?$/i, '')
stripHtmlExtension(url) ==
  IF url # <<>> /\ url[Len(url)] \in {".html", ".htm", ".HTML"}
  THEN Slice(url, 1, Len(url) - 1) ELSE url

\* normalizeIndexUrl that collapses the bare index only, as cleanUrl does
normalizeIndexUrlRootOnly(path) == IF path = <<"index">> THEN <<>> ELSE path

\* path.replace(/\/index$/, '').replace(/^index$/, '')
normalizeIndexUrl(path) ==
  LET n == Len(path)
      a == IF n >= 2 /\ path[n] = "index" /\ path[n - 1] = "/"
           THEN Slice(path, 1, n - 2) ELSE path
  IN IF a = <<"index">> THEN <<>> ELSE a

\* relativePath.replace(/^\/+/, '')
RECURSIVE StripLeadingSlashes(_)
StripLeadingSlashes(s) ==
  IF s # <<>> /\ Head(s) = "/" THEN StripLeadingSlashes(Tail(s)) ELSE s

\* new URL(`/${...}`, baseUrl).toString(): the origin, then the absolute path
toAbsoluteUrl(relativePath, baseUrl) == baseUrl \o <<"/">> \o StripLeadingSlashes(relativePath)

\* cleanUrl: strips .html and collapses the root index only
cleanUrl(relativePath, baseUrl) ==
  LET stripped == IF relativePath # <<>> /\ relativePath[Len(relativePath)] = ".html"
                  THEN Slice(relativePath, 1, Len(relativePath) - 1) ELSE relativePath
      cleaned == IF stripped = <<"index">> THEN <<>> ELSE stripped
  IN baseUrl \o <<"/">> \o cleaned

\* new URL(href).pathname of an absolute URL of the site
UrlPathname(href) == Tail(href)

(***************************************************************************)
(* Documents, configuration and plans (config.ts).                         *)
(***************************************************************************)
EN == <<"en">>
FR == <<"fr">>
NL == <<"nl">>

\* FrontMatter: absent strings are Undefined, absent flags are "absent"
EmptyMeta ==
  [title |-> Undefined, description |-> Undefined, sidebarTitle |-> Undefined,
   sidebarSummary |-> Undefined, backLinkHref |-> Undefined, backLinkLabel |-> Undefined,
   slug |-> Undefined, lang |-> Undefined, translationOf |-> Undefined,
   translate |-> "absent", noindex |-> "absent", ogImage |-> Undefined,
   twitterImage |-> Undefined]

\* config.defaultMeta
DefaultMeta ==
  [EmptyMeta EXCEPT !.title = <<"a">>, !.description = <<"a", " ", "b">>,
                    !.sidebarTitle = <<"a">>, !.sidebarSummary = <<"b">>,
                    !.backLinkHref = <<"/">>, !.backLinkLabel = <<"b">>]

\* { ...base, ...over }: a field of `over` wins when it is present
SpreadMeta(base, over) ==
  [k \in DOMAIN base |->
     IF k \in {"translate", "noindex"}
     THEN (IF over[k] = "absent" THEN base[k] ELSE over[k])
     ELSE OrElse(over[k], base[k])]

\* an absent supportedLangs
NoList == <<Undefined>>

\* getDefaultLang(config)
getDefaultLang(config) ==
  IF config.translations THEN OrElse(config.defaultLang, EN) ELSE EN

\* getSupportedLangs(config, defaultLang)
getSupportedLangs(config, defaultLang) ==
  IF config.translations /\ config.supportedLangs # NoList
  THEN config.supportedLangs ELSE <<defaultLang>>

\* `simple-markdown-builder-custom-${defaultLang}-${targetLang}`: the glossary of a
\* language pair; the service's id of a glossary is modelled by its name
GlossaryName(defaultLang, targetLang) == defaultLang \o <<"-">> \o targetLang

\* no glossary (null)
NoGlossary == <<>>

(***************************************************************************)
(* extractFrontMatter and parseMeta (frontmatter.ts 3-66). A FrontMatter   *)
(* as parseMeta builds it is a function from the keys found to their       *)
(* values; a boolean value is TrueValue or FalseValue.                     *)
(***************************************************************************)
TrueValue == <<"<true>">>
FalseValue == <<"<false>">>

\* {}
NoMeta == <<>>

\* line.match(/^---\s*$/): three hyphens, then white space only
IsBoundary(line) ==
  /\ line # <<>>
  /\ line[1] = "---"
  /\ \A i \in 2..Len(line) : line[i] \in WhiteSpace

\* lines.findIndex((line, index) => index > 0 && line.match(FRONT_MATTER_BOUNDARY)),
\* counted from 1: 0 when no line after the first is a boundary
FindEndIndex(lines) ==
  LET found == { i \in 2..Len(lines) : IsBoundary(lines[i]) }
  IN IF found = {} THEN 0 ELSE CHOOSE i \in found : \A j \in found : i <= j

RECURSIVE ReplacePairs(_, _, _, _)
\* s.replace(/ab/g, repl) for the two-atom pattern a b
ReplacePairs(s, a, b, repl) ==
  IF s = <<>> THEN <<>>
  ELSE IF Len(s) >= 2 /\ s[1] = a /\ s[2] = b
    THEN repl \o ReplacePairs(Slice(s, 3, Len(s)), a, b, repl)
    ELSE <<s[1]>> \o ReplacePairs(Tail(s), a, b, repl)

parseMetaValue(raw) ==
  IF raw = <<>> \/ raw[1] # "\"" \/ raw[Len(raw)] # "\""
  THEN raw
  ELSE LET inner == Slice(raw, 2, Len(raw) - 1)
       IN ReplacePairs(ReplacePairs(inner, "\\", "\"", <<"\"">>), "\\", "\\", <<"\\">>)

\* a line is skipped only when nothing stands before its first colon
SkipsLineEmptyKeyOnly(key, rest) == key = <<>>

\* !key || rest.length === 0
SkipsLine(key, rest) == key = <<>> \/ Len(rest) = 0

\* the body of the reducer of parseMeta: acc after one line
ParseMetaLine(acc, line) ==
  LET pieces == Split(line, ":")
      key == pieces[1]
      rest == Tail(pieces)
  IN IF SkipsLine(key, rest) THEN acc
     ELSE LET rawValue == Trim(Join(rest, ":"))
              keyName == Trim(key)
          IN IF keyName \in { <<"noindex">>, <<"translate">> }
             THEN LET normalized == ToLowerCase(rawValue)
                      value == IF normalized \in { <<"true">>, <<"yes">>, <<"1">> }
                               THEN TrueValue ELSE FalseValue
                  IN (keyName :> value) @@ acc
             ELSE (keyName :> parseMetaValue(rawValue)) @@ acc

RECURSIVE ParseMetaFrom(_, _)
ParseMetaFrom(acc, lines) ==
  IF lines = <<>> THEN acc ELSE ParseMetaFrom(ParseMetaLine(acc, Head(lines)), Tail(lines))

parseMeta(lines) == ParseMetaFrom(NoMeta, lines)

\* extractFrontMatter(raw): nothing in it throws
extractFrontMatter(raw) ==
  LET lines == Split(raw, "\n")
      endIndex == FindEndIndex(lines)
  IN IF IsBoundary(lines[1]) /\ endIndex > 0
     THEN [body |-> Trim(Join(Slice(lines, endIndex + 1, Len(lines)), "\n")),
           meta |-> parseMeta(Slice(lines, 2, endIndex - 1))]
     ELSE [body |-> Trim(raw), meta |-> NoMeta]

(***************************************************************************)
(* createPlan (translations.ts 457-512).                                   *)
(***************************************************************************)
\* the output name without the directory of the source
OutputNameFlat(slug, relativeDir) == slug \o <<".html">>

\* lines 481-486: the output name of a slug for a source in relativeDir
OutputName(slug, relativeDir) ==
  IF \E i \in 1..Len(slug) : slug[i] = "/"
  THEN normalizePathSeparators(slug \o <<".html">>)
  ELSE IF relativeDir # <<".">>
    THEN normalizePathSeparators(PathJoin(<<relativeDir, slug \o <<".html">>>>))
    ELSE slug \o <<".html">>

\* the language of the directory, whatever the front matter says
PlanLangOfPath(metaLang, relativeSource, supportedLangs, defaultLang) ==
  inferLangFromPath(relativeSource, supportedLangs, defaultLang)

\* lines 471-475: the language of a plan
PlanLang(metaLang, relativeSource, supportedLangs, defaultLang) ==
  sanitizeLang(
    OrElse(metaLang, inferLangFromPath(relativeSource, supportedLangs, defaultLang)),
    supportedLangs, defaultLang)

createPlan(filePath, doc, config, defaultLang, supportedLangs) ==
  LET relativeSource == filePath
      meta == doc.meta
      lang == PlanLang(meta.lang, relativeSource, supportedLangs, defaultLang)
      slug == sanitizeSlug(OrElse(meta.slug, extractSlugFromPath(filePath)))
      relativeDir == DirName(relativeSource)
      outputName == OutputName(slug, relativeDir)
      merged == SpreadMeta(DefaultMeta, meta)
      \* PageMeta: { ...config.defaultMeta, ...meta, slug, lang, output }
      mergedMeta == [k \in DOMAIN merged \cup {"output"} |->
                       CASE k = "slug" -> slug
                         [] k = "lang" -> lang
                         [] k = "output" -> outputName
                         [] OTHER -> merged[k]]
  IN [sourcePath |-> filePath, relativeOutput |-> outputName, meta |-> mergedMeta]

(***************************************************************************)
(* The translation-group index (sitemap.ts).                               *)
(***************************************************************************)
DEFAULT_LANG == EN

GroupKey(plan) == OrElse(plan.meta.translationOf, OrElse(plan.meta.slug, <<"page">>))

\* groupByTranslation(plans): key -> the plans with that key, in the order of `plans`
groupByTranslation(ps) ==
  [key \in { GroupKey(ps[i]) : i \in 1..Len(ps) } |->
     SelectSeq(ps, LAMBDA q : GroupKey(q) = key)]

\* groups.get(groupKey) ?? [plan]
GroupOf(plan, gs) == IF GroupKey(plan) \in DOMAIN gs THEN gs[GroupKey(plan)] ELSE <<plan>>

resolveCanonicalRelative(plan, gs) ==
  LET group == GroupOf(plan, gs)
      defaultLang == OrElse(plan.meta.lang, DEFAULT_LANG)
      \* group.find(...): the first entry of that language, if there is one
      hits == { i \in 1..Len(group) : group[i].meta.lang = defaultLang }
      english == IF hits = {} THEN 0 ELSE CHOOSE i \in hits : \A j \in hits : i <= j
  IN IF english # 0 THEN group[english].relativeOutput ELSE plan.relativeOutput

\* a.lang.localeCompare(b.lang) < 0, for the language tags of the model
LangAlphabet == <<"de", "en", "fr", "nl", "x-default">>
AlphaRank(lang) == CHOOSE i \in 1..Len(LangAlphabet) : LangAlphabet[i] = lang[1]

\* [...links].sort(compare): Array.prototype.sort is stable.  Each entry carries
\* its keys: k1 is its index in `order`, k2 the rank of its tag for localeCompare.
KeyBefore(a, b) == IF a.k1 = b.k1 THEN a.k2 < b.k2 ELSE a.k1 < b.k1

RECURSIVE InsertSorted(_, _)
InsertSorted(sorted, x) ==
  IF sorted = <<>> THEN <<x>>
  ELSE IF KeyBefore(x, sorted[Len(sorted)]) 
    THEN InsertSorted(SubSeq(sorted, 1, Len(sorted) - 1), x) \o <<sorted[Len(sorted)]>>
    ELSE sorted \o <<x>>

RECURSIVE StableSort(_)
StableSort(seq) ==
  IF seq = <<>> THEN <<>>
  ELSE InsertSorted(StableSort(SubSeq(seq, 1, Len(seq) - 1)), seq[Len(seq)])

sortAlternates(links, defaultLang) ==
  LET others == SelectSeq(links, LAMBDA l : l.lang # defaultLang)
      supportedLangs == <<defaultLang>> \o [i \in 1..Len(others) |-> others[i].lang]
      \* new Map(entries): a later entry of the same key replaces the earlier one
      order(lang) == CHOOSE i \in 1..Len(supportedLangs) :
                        /\ supportedLangs[i] = lang
                        /\ \A j \in 1..Len(supportedLangs) : supportedLangs[j] = lang => j <= i
      keyed == [i \in 1..Len(links) |->
                  [item |-> links[i], k1 |-> order(links[i].lang), k2 |-> AlphaRank(links[i].lang)]]
      sorted == StableSort(keyed)
  IN [i \in 1..Len(sorted) |-> sorted[i].item]

buildAlternateLinks(plan, gs, baseUrl, defaultLang) ==
  LET group == GroupOf(plan, gs)
      links == [i \in 1..Len(group) |->
                  [lang |-> OrElse(group[i].meta.lang, defaultLang),
                   href |-> toAbsoluteUrl(
                              normalizeIndexUrl(stripHtmlExtension(group[i].relativeOutput)),
                              baseUrl)]]
      canonicalRelative ==
        normalizeIndexUrl(stripHtmlExtension(resolveCanonicalRelative(plan, gs)))
      xDefaultHref == toAbsoluteUrl(canonicalRelative, baseUrl)
  IN sortAlternates(links, defaultLang) \o <<[lang |-> <<"x-default">>, href |-> xDefaultHref]>>

(***************************************************************************)
(* ensureTranslations: SCAN and PLAN (translations.ts 44-97).              *)
(***************************************************************************)
\* the path the translation of a source is written to (lines 73 and 105-109)
TargetRelative(targetLang, cleanDir, sourceFileName) ==
  PathJoin(<<targetLang, cleanDir, sourceFileName>>)

\* the freshness test with > in the place of >=
IsFreshStrict(fs, sourcePath, targetPath) ==
  /\ targetPath \in DOMAIN fs
  /\ fs[targetPath].mtime > fs[sourcePath].mtime

\* lines 75-85: with refresh not forced, an existing translation that is not
\* older than its source is kept
IsFresh(fs, sourcePath, targetPath) ==
  /\ targetPath \in DOMAIN fs
  /\ fs[targetPath].mtime >= fs[sourcePath].mtime

\* lines 48-58: the language the orchestrator resolves for a source document
ScanLang(meta, firstSegment) == OrElse(meta.lang, firstSegment)

\* the TranslatePlans of one source document, in the order of targetLanguages
ScanFile(cfg, refreshTranslations, fs, sourcePath) ==
  LET defaultLang == OrElse(cfg.defaultLang, EN)
      supportedLangs == IF cfg.supportedLangs = NoList THEN <<defaultLang>> ELSE cfg.supportedLangs
      targetLangs == cfg.targetLanguages
      relativeSource == sourcePath
      firstSegment == Split(relativeSource, "/")[1]
      meta == fs[sourcePath].meta
      lang == ScanLang(meta, firstSegment)
      slug == sanitizeSlug(OrElse(meta.slug, StripMd(BaseName(sourcePath))))
      trimmed == Trim(OrElse(meta.translationOf, slug))
      translationOf == IF trimmed = <<>> THEN slug ELSE trimmed
      relativeDir == DirName(relativeSource)
      cleanDir == IF relativeDir = <<".">> THEN <<>> ELSE relativeDir
      sourceFileName == BaseName(sourcePath)
      wanted == SelectSeq(targetLangs, LAMBDA targetLang :
                  refreshTranslations
                    \/ ~IsFresh(fs, sourcePath, TargetRelative(targetLang, cleanDir, sourceFileName)))
  IN IF Includes(supportedLangs, firstSegment) /\ firstSegment # defaultLang THEN <<>>
     ELSE IF lang # defaultLang THEN <<>>
     ELSE IF ~isTranslateEnabled(meta.translate) THEN <<>>
     ELSE [i \in 1..Len(wanted) |->
             [slug |-> slug, translationOf |-> translationOf, targetLang |-> wanted[i],
              sourceBody |-> fs[sourcePath].body, sourceMeta |-> meta,
              sourceRelativeDir |-> cleanDir, sourceFileName |-> sourceFileName]]

RECURSIVE ScanFiles(_, _, _, _)
ScanFiles(cfg, refreshTranslations, fs, markdownFiles) ==
  IF markdownFiles = <<>> THEN <<>>
  ELSE ScanFile(cfg, refreshTranslations, fs, Head(markdownFiles))
         \o ScanFiles(cfg, refreshTranslations, fs, Tail(markdownFiles))

\* the path a plan is written to
PlanTarget(plan) == TargetRelative(plan.targetLang, plan.sourceRelativeDir, plan.sourceFileName)

(***************************************************************************)
(* collectMarkdownFiles (utils): the files in directory order.  readdir     *)
(* fixes no order, so every order in which the files of each directory are  *)
(* contiguous is possible.                                                  *)
(***************************************************************************)
IsPrefixPath(dir, p) == Len(dir) < Len(p) /\ SubSeq(p, 1, Len(dir)) = dir /\ p[Len(dir) + 1] = "/"

Directories(paths) ==
  UNION { { SubSeq(p, 1, i - 1) : i \in { j \in 2..Len(p) : p[j] = "/" } } : p \in paths }

RECURSIVE Orders(_)
Orders(paths) ==
  IF paths = {} THEN {<<>>}
  ELSE UNION { { <<p>> \o rest : rest \in Orders(paths \ {p}) } : p \in paths }

CollectOrders(paths) ==
  { o \in Orders(paths) :
      \A d \in Directories(paths) : \A i, k \in 1..Len(o) :
        (i < k /\ IsPrefixPath(d, o[i]) /\ IsPrefixPath(d, o[k]))
          => \A j \in (i + 1)..(k - 1) : IsPrefixPath(d, o[j]) }

(***************************************************************************)
(* translateMarkdownPlan (translations.ts 117-216).                        *)
(***************************************************************************)
\* the translator of the pipeline
ServiceKind == "word"

\* mergedMeta of translateMarkdownPlan
PlanMeta(plan) ==
  [SpreadMeta(DefaultMeta, plan.sourceMeta) EXCEPT !.slug = plan.slug,
                                                   !.translationOf = plan.translationOf]

\* translateSlug: the slug as words, translated, and sanitized again
translateSlug(slug) ==
  IF slug = <<>> THEN slug
  ELSE sanitizeSlug(TranslateText(ServiceKind,
                      [i \in 1..Len(slug) |-> IF slug[i] = "-" THEN " " ELSE slug[i]]))

\* translateOrFallback(value): an absent or empty value is returned as it is
translateOrFallback(value) ==
  IF value = Undefined \/ value = <<>> THEN value ELSE TranslateFieldText(ServiceKind, value)

\* the values given to translator.translateText for a plan, in call order; a call
\* made through translateField carries the glossary (useGlossary)
PlanRequests(plan) ==
  LET meta == PlanMeta(plan)
      viaField(name, value) ==
        IF value = Undefined \/ value = <<>> \/ IsBlank(value) THEN <<>>
        ELSE <<[field |-> name, useGlossary |-> TRUE]>>
      links == ExtractLinks(plan.sourceBody)
  IN viaField("title", meta.title)
       \o (IF OrElse(meta.slug, OrElse(meta.title, <<>>)) = <<>> THEN <<>>
           ELSE <<[field |-> "slug", useGlossary |-> FALSE]>>)
       \o viaField("description", meta.description)
       \o viaField("sidebarTitle", meta.sidebarTitle)
       \o viaField("sidebarSummary", meta.sidebarSummary)
       \o viaField("backLinkLabel", meta.backLinkLabel)
       \o viaField("body", ReplaceLinks(plan.sourceBody, 1, 0))
       \o Flatten([i \in 1..Len(links) |-> viaField("link", links[i].text)])

\* the front matter and body of the document a plan writes, as
\* extractFrontMatter reads them back: formatFrontMatter writes title,
\* description, sidebarTitle, sidebarSummary, backLinkHref, backLinkLabel, slug,
\* translationOf and noindex, and neither lang, translate nor the images
TranslatedMeta(plan) ==
  LET meta == PlanMeta(plan)
  IN [meta EXCEPT !.title = translateOrFallback(meta.title),
                  !.slug = translateSlug(OrElse(meta.slug, OrElse(meta.title, <<>>))),
                  !.description = translateOrFallback(meta.description),
                  !.sidebarTitle = translateOrFallback(meta.sidebarTitle),
                  !.sidebarSummary = translateOrFallback(meta.sidebarSummary),
                  !.backLinkLabel = translateOrFallback(meta.backLinkLabel),
                  !.lang = Undefined]

TranslatedDocument(plan) ==
  [meta |-> [TranslatedMeta(plan) EXCEPT !.translate = "absent",
                                         !.ogImage = Undefined,
                                         !.twitterImage = Undefined],
      body |-> translateMarkdownBody(ServiceKind, plan.sourceBody)]

(***************************************************************************)
(* getCustomGlossaryId (translations.ts 312-357).  The cache is a set of    *)
(* entries [key, id]; the service holds a set of glossaries.  `outcome` is  *)
(* what the service does: "ok", "listFails" or "createFails".               *)
(***************************************************************************)
\* the key under which the glossary of a call is cached
CacheKey(defaultLang, targetLang) == targetLang

CacheHas(cache, key) == \E e \in cache : e.key = key
CacheGet(cache, key) == (CHOOSE e \in cache : e.key = key).id
CachePut(cache, key, id) == { e \in cache : e.key # key } \cup {[key |-> key, id |-> id]}

\* [id, cache, service, calls]: the result, the cache and the service afterwards and
\* the requests made to the service
getCustomGlossaryId(cache, service, cfg, targetLang, outcome) ==
  LET defaultLang == OrElse(cfg.defaultLang, EN)
      key == CacheKey(defaultLang, targetLang)
      glossaryName == GlossaryName(defaultLang, targetLang)
      miss(id, svc, reqs) ==
        [id |-> id, cache |-> CachePut(cache, key, id), service |-> svc, calls |-> reqs]
  IN IF CacheHas(cache, key)
     THEN [id |-> CacheGet(cache, key), cache |-> cache, service |-> service, calls |-> <<>>]
     ELSE IF targetLang \notin cfg.customGlossary
       THEN miss(NoGlossary, service, <<>>)
     ELSE IF outcome = "listFails"
       THEN miss(NoGlossary, service, <<"listGlossaries">>)
     ELSE IF glossaryName \in service
       THEN miss(glossaryName, service, <<"listGlossaries">>)
     ELSE IF outcome = "createFails"
       THEN miss(NoGlossary, service, <<"listGlossaries", "createGlossary">>)
     ELSE miss(glossaryName, service \cup {glossaryName}, <<"listGlossaries", "createGlossary">>)

(***************************************************************************)
(* translateMarkdownPlan and the write of its result (lines 103-151).      *)
(* failAt = 0: every translateText call succeeds; failAt = k: call k of    *)
(* the plan rejects.                                                       *)
(***************************************************************************)
\* translateMarkdownPlan that catches a failed call and falls back to the source
translateMarkdownPlanLenient(plan, failAt) ==
  IF failAt = 0 THEN [ok |-> TRUE, document |-> TranslatedDocument(plan)]
  ELSE [ok |-> TRUE, document |-> [meta |-> plan.sourceMeta, body |-> plan.sourceBody]]

translateMarkdownPlan(plan, failAt) ==
  IF failAt = 0 THEN [ok |-> TRUE, document |-> TranslatedDocument(plan)]
  ELSE [ok |-> FALSE, document |-> [meta |-> plan.sourceMeta, body |-> plan.sourceBody]]

(***************************************************************************)
(* renderTemplate, renderLanguageSwitcher (template.ts) and writeSitemap   *)
(* (sitemap.ts): the URLs they put into a page and into sitemap.xml.       *)
(***************************************************************************)
XDefault == <<"x-default">>

\* the pills of the language switcher; only a pill that is not active is a link
renderLanguageSwitcher(currentLang, alternates) ==
  LET available == SelectSeq(alternates, LAMBDA alt : alt.lang # XDefault)
  IN IF Len(available) <= 1 THEN <<>>
     ELSE [i \in 1..Len(available) |->
             [lang |-> available[i].lang,
              isActive |-> available[i].lang = currentLang,
              href |-> UrlPathname(available[i].href)]]

\* what renderTemplate puts into the page of a plan
renderTemplate(meta, baseUrl, alternates, canonicalRelative) ==
  [output |-> meta.output,
   lang |-> meta.lang,
   canonicalRelative |-> canonicalRelative,
   canonicalUrl |-> IF canonicalRelative # <<>>
                    THEN toAbsoluteUrl(normalizeIndexUrl(stripHtmlExtension(canonicalRelative)),
                                       baseUrl)
                    ELSE cleanUrl(meta.output, baseUrl),
   pageUrl |-> cleanUrl(meta.output, baseUrl),
   alternates |-> alternates,
   hreflang |-> SelectSeq(alternates, LAMBDA alt : alt.lang # XDefault),
   languageSwitcher |-> renderLanguageSwitcher(OrElse(meta.lang, DEFAULT_LANG), alternates),
   noindex |-> isBooleanEnabled(meta.noindex)]

\* a.localeCompare(b) < 0 for paths: atom by atom, a prefix first; punctuation
\* sorts before words, "-" before "." before "/"
AtomAlphabet == <<"-", ".html", ".md", "/", "a", "b", "en", "fr", "index", "nl", "page",
                  "pagina", "sub">>
AtomRank(a) == CHOOSE i \in 1..Len(AtomAlphabet) : AtomAlphabet[i] = a

RECURSIVE PathLess(_, _)
PathLess(a, b) ==
  IF b = <<>> THEN FALSE
  ELSE IF a = <<>> THEN TRUE
  ELSE IF Head(a) = Head(b) THEN PathLess(Tail(a), Tail(b))
  ELSE AtomRank(Head(a)) < AtomRank(Head(b))

\* a Map that keeps the first plan of every output path
UniqueByOutputFirst(ps) ==
  SelectSeq([i \in 1..Len(ps) |-> [at |-> i, plan |-> ps[i]]],
            LAMBDA e : \A j \in 1..(e.at - 1) : ps[j].relativeOutput # e.plan.relativeOutput)

\* lines 81-82 and 86, [...unique.values()]: a Map keeps the place of the first
\* plan of an output path and the value of the last
UniqueByOutput(ps) ==
  LET n == Len(ps)
      firsts == SelectSeq([i \in 1..n |-> i],
                  LAMBDA i : \A j \in 1..(i - 1) : ps[j].relativeOutput # ps[i].relativeOutput)
      lastOf(i) == CHOOSE j \in i..n :
                     /\ ps[j].relativeOutput = ps[i].relativeOutput
                     /\ \A k \in (j + 1)..n : ps[k].relativeOutput # ps[i].relativeOutput
  IN [i \in 1..Len(firsts) |-> [at |-> lastOf(firsts[i]), plan |-> ps[lastOf(firsts[i])]]]

\* the rows of sitemap.xml
writeSitemap(ps, baseUrl, defaultLang, gs) ==
  LET entries == UniqueByOutput(ps)
      unique == [i \in 1..Len(entries) |-> entries[i].plan]
      indexed == SelectSeq(unique, LAMBDA plan : ~isBooleanEnabled(plan.meta.noindex))
      keyed == [i \in 1..Len(indexed) |->
                  [item |-> indexed[i],
                   k1 |-> Cardinality({ j \in 1..Len(indexed) :
                            PathLess(indexed[j].relativeOutput, indexed[i].relativeOutput) }),
                   k2 |-> 0]]
      sorted == StableSort(keyed)
  IN [i \in 1..Len(sorted) |->
        [output |-> sorted[i].item.relativeOutput,
         loc |-> toAbsoluteUrl(
                   normalizeIndexUrl(stripHtmlExtension(sorted[i].item.relativeOutput)), baseUrl),
         alternates |-> SelectSeq(buildAlternateLinks(sorted[i].item, gs, baseUrl, defaultLang),
                                  LAMBDA alt : alt.lang # XDefault)]]

(***************************************************************************)
(* renderTemplate and generateHeadTags (template.ts 44-193): the text of   *)
(* the page.  A tag of the template or of the body ("<head>", "</head>",   *)
(* "</HEAD>", "<p>") and a placeholder ("{{TITLE}}", "{{LANG}}",            *)
(* "{{BODY}}") is one atom.                                                *)
(***************************************************************************)
\* escapeHtml(text): an absent text is empty; <, >, &, " and ' are escaped
EscapeAtom(a) ==
  CASE a = "</head>" -> "&lt;/head&gt;"
    [] a = "</HEAD>" -> "&lt;/HEAD&gt;"
    [] a = "<head>" -> "&lt;head&gt;"
    [] a = "<p>" -> "&lt;p&gt;"
    [] a = "&" -> "&amp;"
    [] OTHER -> a

escapeHtml(text) ==
  IF text = Undefined THEN <<>> ELSE [i \in 1..Len(text) |-> EscapeAtom(text[i])]

\* s.replace(/token/g, repl): every occurrence is replaced by the expansion of repl
ReplaceAll(s, token, repl) ==
  Flatten([i \in 1..Len(s) |->
             IF s[i] = token
             THEN GetSubstitution(repl, <<token>>, Slice(s, 1, i - 1), Slice(s, i + 1, Len(s)))
             ELSE <<s[i]>>])

\* lines 167-176: the placeholders are replaced, the title first and the body last
SubstitutePlaceholders(template, body, meta) ==
  ReplaceAll(
    ReplaceAll(
      ReplaceAll(template, "{{TITLE}}", escapeHtml(meta.title)),
      "{{LANG}}", OrElse(meta.lang, DEFAULT_LANG)),
    "{{BODY}}", body)

\* a JavaScript string is truthy when it is there and not empty
Truthy(x) == x # Undefined /\ x # <<>>

\* an image tag that is written whether or not there is an image
ImageTagAlways(name, image, baseUrl) ==
  << <<name>> \o toAbsoluteUrl(IF image = Undefined THEN <<>> ELSE image, baseUrl) >>

\* lines 100-102 and 115-117: the tag of an image, if the page has that image
ImageTag(name, image, baseUrl) ==
  IF Truthy(image) THEN << <<name>> \o toAbsoluteUrl(image, baseUrl) >> ELSE <<>>

\* the lines of the head block; a line starts with the atom that names its tag
generateHeadTags(meta, baseUrl, canonicalUrl, pageUrl, alternates) ==
  LET hreflangLinks == SelectSeq(alternates, LAMBDA alt : alt.lang # XDefault)
  IN << <<"description=">> \o escapeHtml(meta.description),
        <<"canonical=">> \o canonicalUrl,
        <<"og:url=">> \o pageUrl,
        <<"og:title=">> \o escapeHtml(meta.title),
        <<"og:description=">> \o escapeHtml(meta.description) >>
     \o ImageTag("og:image=", meta.ogImage, baseUrl)
     \o << <<"twitter:card=", "summary_large_image">>,
           <<"twitter:title=">> \o escapeHtml(meta.title),
           <<"twitter:description=">> \o escapeHtml(meta.description) >>
     \o ImageTag("twitter:image=", meta.twitterImage, baseUrl)
     \o [i \in 1..Len(hreflangLinks) |->
           <<"alternate=">> \o hreflangLinks[i].href \o <<"hreflang=">> \o hreflangLinks[i].lang]
     \o (IF isBooleanEnabled(meta.noindex) THEN << <<"robots=", "noindex, nofollow">> >> ELSE <<>>)

\* rendered.match(/<\/head>/i): the place of the first closing head tag, or 0
HeadEndMatch(rendered) == FirstIn(rendered, {"</head>", "</HEAD>"}, 1)

\* lines 178-192: the head block goes in before the closing head tag that is
\* found; without one, renderTemplate throws
InjectHeadTags(rendered, headTags) ==
  LET insertPosition == HeadEndMatch(rendered)
  IN IF insertPosition = 0 THEN [thrown |-> TRUE, html |-> <<>>]
     ELSE [thrown |-> FALSE,
           html |-> Slice(rendered, 1, insertPosition - 1)
                      \o Join(headTags, "\n") \o <<"\n">>
                      \o Slice(rendered, insertPosition, Len(rendered))]

(***************************************************************************)
(* The link validator (link-checker.ts) and slugifyAnchor (utils).  The    *)
(* output directory is a function from the path of a generated document to *)
(* [hrefs, attrs]: the values of its href="..." attributes in document     *)
(* order, and its other attributes as [name, value].  A resolved path is a *)
(* sequence of segments below the file system root; the output directory   *)
(* is /out.                                                                *)
(***************************************************************************)
OutputDir == << <<"out">> >>
IndexHtml == <<"index", ".html">>

\* .replace(/[^\w\s-]/g, ''): what is neither a word character, white space nor "-" goes
RemoveNonWord(s) == SelectSeq(s, LAMBDA a : a \notin (Punctuation \ {" ", "\n", "_"}) \cup {"!"})

\* .replace(/[\s_-]+/g, '-'): every run of white space, "_" and "-" becomes one "-"
RECURSIVE CollapseSeparators(_)
CollapseSeparators(s) ==
  IF s = <<>> THEN <<>>
  ELSE LET rest == CollapseSeparators(Tail(s))
           a == IF Head(s) \in {" ", "\n", "_", "-"} THEN "-" ELSE Head(s)
       IN IF a = "-" /\ rest # <<>> /\ Head(rest) = "-" THEN rest ELSE <<a>> \o rest

\* .replace(/^-+|-+$/g, '') of a text whose runs of "-" are collapsed
slugifyAnchor(text) == StripHyphens(CollapseSeparators(RemoveNonWord(Trim(ToLowerCase(text)))))

SKIP_PREFIXES == {"mailto:", "tel:", "javascript:", "data:"}
SKIP_SCHEMES == {"http://", "https://"}

isSkippableHref(href) == href = <<>> \/ Head(href) \in SKIP_PREFIXES \cup SKIP_SCHEMES

\* the text after the first "#", or null (the empty text) when there is none
extractAnchor(href) ==
  LET hashIndex == FirstIn(href, {"#"}, 1)
  IN IF hashIndex = 0 THEN <<>> ELSE Slice(href, hashIndex + 1, Len(href))

\* /id=["']([^"']+)["']/gi matches the end of any attribute name that ends
\* with "id": id, ID and data-id alike
IdPatternMatches(name) == name \in {"id", "ID", "data-id"}

extractIdsFromHtml(html) ==
  { slugifyAnchor(html.attrs[i].value) :
      i \in { j \in 1..Len(html.attrs) :
                IdPatternMatches(html.attrs[j].name) /\ html.attrs[j].value # <<>> } }

\* path.normalize of an absolute path, as segments: "." and empty segments go,
\* ".." takes the segment before it, and the root is its own parent
RECURSIVE NormalizeSegments(_, _)
NormalizeSegments(done, segs) ==
  IF segs = <<>> THEN done
  ELSE IF Head(segs) \in {<<>>, <<".">>} THEN NormalizeSegments(done, Tail(segs))
  ELSE IF Head(segs) = <<"..">>
    THEN NormalizeSegments(Slice(done, 1, Len(done) - 1), Tail(segs))
    ELSE NormalizeSegments(Append(done, Head(segs)), Tail(segs))

\* path.dirname(fromFile) of a document of the output directory, as segments
FromDir(fromFile) ==
  LET segs == Split(fromFile, "/") IN OutputDir \o Slice(segs, 1, Len(segs) - 1)

resolveInternalPath(href, fromFile, outputDir) ==
  LET withoutHash == Split(href, "#")[1]
      withoutQuery == Split(withoutHash, "?")[1]
      startsWithSlash == withoutQuery # <<>> /\ Head(withoutQuery) = "/"
      startsWithParent == Len(withoutQuery) >= 2 /\ withoutQuery[1] = ".." /\ withoutQuery[2] = "/"
  IN IF startsWithSlash
     THEN NormalizeSegments(outputDir, Split(Tail(withoutQuery), "/"))
     ELSE IF ~startsWithParent
       THEN NormalizeSegments(outputDir, Split(withoutQuery, "/"))
       ELSE NormalizeSegments(FromDir(fromFile), Split(withoutQuery, "/"))

\* stat(path): a document of the output directory, or a directory above one
IsFile(tree, segs) ==
  /\ Len(segs) >= 2 /\ segs[1] = <<"out">>
  /\ Join(Tail(segs), "/") \in DOMAIN tree
IsDirectory(tree, segs) ==
  \/ segs = <<>>
  \/ segs = OutputDir
  \/ /\ Len(segs) >= 2 /\ segs[1] = <<"out">>
     /\ \E p \in DOMAIN tree : IsPrefixPath(Join(Tail(segs), "/"), p)

\* lines 99-103: the literal path, the path with .html, the path with index.html
PathVariations(resolved) ==
  << resolved,
     IF resolved = <<>> THEN << <<".html">> >>
     ELSE Append(Slice(resolved, 1, Len(resolved) - 1), resolved[Len(resolved)] \o <<".html">>),
     Append(resolved, IndexHtml) >>

\* lines 105-121: the file a link leads to, as << file >>, or << >> when no
\* variation is a file or a directory with an index.html
TargetFile(tree, resolved) ==
  LET variations == PathVariations(resolved)
      checkPath(v) == IF IsDirectory(tree, v) THEN Append(v, IndexHtml) ELSE v
      found == { k \in 1..Len(variations) : IsFile(tree, checkPath(variations[k])) }
  IN IF found = {} THEN <<>>
     ELSE << checkPath(variations[CHOOSE k \in found : \A m \in found : k <= m]) >>

\* the document at a resolved path
ContentAt(tree, segs) == tree[Join(Tail(segs), "/")]

\* lines 74-151, one href of a document: the MissingLink entries it adds
checkHref(tree, file, href) ==
  LET fileIds == extractIdsFromHtml(tree[file])
      resolvedPath == resolveInternalPath(href, file, OutputDir)
      target == TargetFile(tree, resolvedPath)
      anchor == extractAnchor(href)
      entry == << [fromFile |-> file, href |-> href] >>
  IN IF isSkippableHref(href) THEN <<>>
     ELSE IF Head(href) = "#"
       THEN (IF Tail(href) # <<>> /\ slugifyAnchor(Tail(href)) \notin fileIds
             THEN entry ELSE <<>>)
     ELSE IF target = <<>> THEN entry
     ELSE IF anchor # <<>>
               /\ slugifyAnchor(anchor) \notin extractIdsFromHtml(ContentAt(tree, target[1]))
       THEN entry
     ELSE <<>>

\* a loop that stops at the first broken link
RECURSIVE CollectMissingFirstOnly(_, _)
CollectMissingFirstOnly(tree, htmlFiles) ==
  IF htmlFiles = <<>> THEN <<>>
  ELSE LET file == Head(htmlFiles)
           hrefs == tree[file].hrefs
           mine == Flatten([i \in 1..Len(hrefs) |-> checkHref(tree, file, hrefs[i])])
       IN IF mine # <<>> THEN <<mine[1]>> ELSE CollectMissingFirstOnly(tree, Tail(htmlFiles))

\* lines 67-152: the `missing` array after the loop over the documents
RECURSIVE CollectMissing(_, _)
CollectMissing(tree, htmlFiles) ==
  IF htmlFiles = <<>> THEN <<>>
  ELSE LET file == Head(htmlFiles)
           hrefs == tree[file].hrefs
       IN Flatten([i \in 1..Len(hrefs) |-> checkHref(tree, file, hrefs[i])])
            \o CollectMissing(tree, Tail(htmlFiles))

(***************************************************************************)
(* The configurations and the documents of the model.                      *)
(***************************************************************************)
MaxDocs == 2
MaxSiteDocs == 3
MaxSiteRuns == 1
MaxEdits == 1
MaxRuns == 2
MaxClock == 1

\* translations: false
CfgOff ==
  [name |-> "off", translations |-> FALSE, apiKey |-> FALSE, defaultLang |-> Undefined,
   supportedLangs |-> NoList, targetLanguages |-> <<>>, customGlossary |-> {}]
\* no API key; three supported languages
CfgNoKey ==
  [name |-> "nokey", translations |-> TRUE, apiKey |-> FALSE, defaultLang |-> Undefined,
   supportedLangs |-> <<EN, NL, FR>>, targetLanguages |-> <<FR>>, customGlossary |-> {}]
\* no API key and no target language
CfgNoKeyQuiet ==
  [name |-> "nokey-quiet", translations |-> TRUE, apiKey |-> FALSE, defaultLang |-> Undefined,
   supportedLangs |-> <<EN, NL, FR>>, targetLanguages |-> <<>>, customGlossary |-> {}]
\* English to French with a custom glossary; supportedLangs is left out
CfgEnFr ==
  [name |-> "en-fr", translations |-> TRUE, apiKey |-> TRUE, defaultLang |-> Undefined,
   supportedLangs |-> NoList, targetLanguages |-> <<FR>>, customGlossary |-> {FR}]
\* Dutch to French with a custom glossary
CfgNlFr ==
  [name |-> "nl-fr", translations |-> TRUE, apiKey |-> TRUE, defaultLang |-> NL,
   supportedLangs |-> <<NL, FR>>, targetLanguages |-> <<FR>>, customGlossary |-> {FR}]

Doc(path, meta, body) == [path |-> path, meta |-> meta, body |-> body]
Translate == [EmptyMeta EXCEPT !.translate = "true"]

SiteDocs ==
  { Doc(<<"index", ".md">>, EmptyMeta, <<"a">>),
    Doc(<<"index", ".md">>, [EmptyMeta EXCEPT !.slug = <<"page">>], <<"a">>),
    Doc(<<"page", ".md">>, EmptyMeta, <<"a">>),
    Doc(<<"sub", "/", "index", ".md">>, EmptyMeta, <<"a">>),
    Doc(<<"fr", "/", "index", ".md">>, EmptyMeta, <<"b">>),
    Doc(<<"en", "/", "page", ".md">>, EmptyMeta, <<"a">>),
    Doc(<<"fr", "/", "page", ".md">>, EmptyMeta, <<"b">>),
    Doc(<<"nl", "/", "page", ".md">>, EmptyMeta, <<"a">>) }

TranslateDocs ==
  { Doc(<<"page", ".md">>, Translate, <<"a">>),
    Doc(<<"page", ".md">>, [Translate EXCEPT !.lang = EN], <<"a">>),
    Doc(<<"en", "/", "page", ".md">>, Translate, MakeLink(<<"a">>, <<"u">>)),
    Doc(<<"nl", "/", "page", ".md">>, Translate, <<"a">>),
    Doc(<<"fr", "/", "page", ".md">>, [Translate EXCEPT !.lang = EN], <<"b">>) }

\* the content directories made of up to MaxDocs documents of a pool
Contents(pool, max) ==
  LET paths == { d.path : d \in pool }
  IN UNION { { f \in [ps -> [meta : { d.meta : d \in pool }, body : { d.body : d \in pool },
                             mtime : {0}]] :
                 \A q \in ps : Doc(q, f[q].meta, f[q].body) \in pool }
             : ps \in { x \in SUBSET paths : Cardinality(x) <= max } }

(***************************************************************************)
(* The process: the author writes documents while nothing runs; build()    *)
(* and ensureTranslations() run one at a time, stage by stage.             *)
(***************************************************************************)
runVars == <<mode, runConfig, refresh, queue, nPlans, calls, writes, failure, filesAtFailure,
             repeat, plans, groups, pages, outputs, sitemap>>
moduleVars == <<translatorInstance, translationWarned, warnings, glossaryCache, glossaries,
               lookups, used>>
buildVars == <<plans, groups, pages, outputs, sitemap>>

GlossaryOutcomes == {"ok", "listFails", "createFails"}
\* the calls of the plan at the head of the queue that can fail; 0: none does
FailPoints == IF queue = <<>> THEN {0} ELSE 0..Len(PlanRequests(Head(queue)))

\* what the output directory can hold after the plans `ps` were written
\* concurrently: per output path, the page of any one of the plans written there
RECURSIVE Written(_, _)
Written(ps, outs) ==
  IF outs = {} THEN {{}}
  ELSE LET o == CHOOSE x \in outs : TRUE
       IN { {[output |-> o, sourcePath |-> ps[i].sourcePath]} \cup rest :
              i \in { j \in 1..Len(ps) : ps[j].relativeOutput = o },
              rest \in Written(ps, outs \ {o}) }

\* the author writes a document into the content directory
WriteDoc(d, max) ==
  /\ pc = "idle"
  /\ edits < MaxEdits
  /\ d.path \in DOMAIN files \/ Cardinality(DOMAIN files) < max
  /\ files' = [q \in DOMAIN files \cup {d.path} |->
                 IF q = d.path THEN [meta |-> d.meta, body |-> d.body, mtime |-> clock]
                 ELSE files[q]]
  /\ edits' = edits + 1
  /\ quiet' = NoConfig
  /\ UNCHANGED <<nonSiteVars, clock, runs, hadKey, pc, runVars, moduleVars>>

\* time passes, also while a call runs
Tick ==
  /\ clock < MaxClock
  /\ clock' = clock + 1
  /\ UNCHANGED <<nonSiteVars, files, edits, runs, hadKey, pc, quiet, runVars, moduleVars>>

\* a call starts: nothing of an earlier run is left
Start(m, cfg, r) ==
  /\ pc = "idle"
  /\ runs < MaxRuns
  /\ runs' = runs + 1
  /\ hadKey' = (hadKey \/ cfg.apiKey)
  /\ mode' = m /\ runConfig' = cfg /\ refresh' = r
  /\ queue' = <<>> /\ nPlans' = 0 /\ calls' = 0 /\ writes' = <<>>
  /\ failure' = FALSE /\ filesAtFailure' = <<>>
  /\ repeat' = (~r /\ quiet = cfg)
  /\ quiet' = NoConfig
  /\ plans' = <<>> /\ groups' = <<>> /\ pages' = <<>> /\ outputs' = {} /\ sitemap' = NoSitemap
  /\ pc' = "ensure"
  /\ UNCHANGED <<nonSiteVars, files, clock, edits, moduleVars>>

\* build(config): lines 388-405, with clean off; refreshTranslations is false
StartBuild(cfg) == Start("build", cfg, FALSE)

\* ensureTranslations(config, contentDir, refreshTranslations) called on its own
StartTranslate(cfg, r) == Start("translate", cfg, r)

\* ensureTranslations returns: build() goes on to collect the documents
Returned(next) ==
  /\ next = IF mode = "build" THEN "collect" ELSE "done"
  /\ quiet' = IF refresh THEN NoConfig ELSE runConfig

\* a translator that is made whatever the configuration holds
getTranslatorAlways(instance, apiKey) == "translator"

\* getTranslator (lines 359-369): the translator of the process is made by the
\* first call, with the API key of that call or as null, and kept
getTranslator(instance, apiKey) ==
  IF instance # "undefined" THEN instance
  ELSE IF apiKey THEN "translator" ELSE "null"

\* line 33: the warning is due when it was not given yet and there are targets
ShouldWarn(warned, targetLanguages) == ~warned /\ Len(targetLanguages) > 0

\* lines 23-42: no translations, or no translator
EnsureEnter ==
  /\ pc = "ensure"
  /\ IF ~runConfig.translations
     THEN /\ Returned(pc')
          /\ UNCHANGED <<translatorInstance, translationWarned, warnings>>
     ELSE /\ translatorInstance' = getTranslator(translatorInstance, runConfig.apiKey)
          /\ IF translatorInstance' = "null"
             THEN /\ translationWarned' =
                       (translationWarned
                          \/ ShouldWarn(translationWarned, runConfig.targetLanguages))
                  /\ warnings' =
                       IF ShouldWarn(translationWarned, runConfig.targetLanguages)
                       THEN warnings + 1 ELSE warnings
                  /\ Returned(pc')
             ELSE /\ pc' = "scan"
                  /\ UNCHANGED <<translationWarned, warnings, quiet>>
  /\ UNCHANGED <<nonSiteVars, files, clock, edits, runs, hadKey, runVars, glossaryCache, glossaries,
                 lookups, used>>

\* lines 44-101: the documents are collected in some directory order and planned
EnsureScan ==
  /\ pc = "scan"
  /\ \E markdownFiles \in CollectOrders(DOMAIN files) :
       queue' = ScanFiles(runConfig, refresh, files, markdownFiles)
  /\ nPlans' = Len(queue')
  /\ IF queue' = <<>> THEN Returned(pc') ELSE pc' = "translate" /\ UNCHANGED quiet
  /\ UNCHANGED <<nonSiteVars, files, clock, edits, runs, hadKey, mode, runConfig, refresh, calls, writes,
                 failure, filesAtFailure, repeat, buildVars, moduleVars>>

\* lines 103-114, one turn of the loop: the plan at the head of the queue is
\* translated and, if every call succeeded, written
TranslateStep ==
  /\ pc = "translate"
  /\ queue # <<>>
  /\ \E failAt \in FailPoints, outcome \in GlossaryOutcomes :
     LET plan == Head(queue)
         requests == PlanRequests(plan)
         made == IF failAt = 0 THEN Len(requests) ELSE failAt
         looked == \E i \in 1..made : requests[i].useGlossary
         defaultLang == OrElse(runConfig.defaultLang, EN)
         g == getCustomGlossaryId(glossaryCache, glossaries, runConfig, plan.targetLang, outcome)
         translation == translateMarkdownPlan(plan, failAt)
         target == PlanTarget(plan)
     IN /\ calls' = calls + made
        /\ IF looked
           THEN /\ glossaryCache' = g.cache
                /\ glossaries' = g.service
                /\ lookups' = lookups \o (IF g.calls = <<>> THEN <<>>
                                 ELSE <<[defaultLang |-> defaultLang,
                                         targetLang |-> plan.targetLang]>>)
                /\ used' = used \cup {[defaultLang |-> defaultLang,
                                       targetLang |-> plan.targetLang, glossary |-> g.id]}
           ELSE UNCHANGED <<glossaryCache, glossaries, lookups, used>>
        /\ failure' = (failAt # 0)
        /\ IF translation.ok
           THEN /\ files' = [q \in DOMAIN files \cup {target} |->
                               IF q = target
                               THEN [meta |-> translation.document.meta,
                                     body |-> translation.document.body, mtime |-> clock]
                               ELSE files[q]]
                /\ writes' = Append(writes, target)
                /\ queue' = Tail(queue)
                /\ UNCHANGED filesAtFailure
                /\ IF queue' = <<>> THEN Returned(pc') ELSE pc' = "translate" /\ UNCHANGED quiet
           ELSE /\ pc' = "rejected"
                /\ filesAtFailure' = files
                /\ UNCHANGED <<files, writes, queue, quiet>>
  /\ UNCHANGED <<nonSiteVars, clock, edits, runs, hadKey, mode, runConfig, refresh, nPlans, repeat,
                 buildVars, translatorInstance, translationWarned, warnings>>

\* lines 407-419: the documents are collected and their plans created
BuildCollect ==
  /\ pc = "collect"
  /\ \E markdownFiles \in CollectOrders(DOMAIN files) :
       LET defaultLang == getDefaultLang(runConfig)
           supportedLangs == getSupportedLangs(runConfig, defaultLang)
       IN plans' = [i \in 1..Len(markdownFiles) |->
                      createPlan(markdownFiles[i], files[markdownFiles[i]], runConfig,
                                 defaultLang, supportedLangs)]
  /\ pc' = IF DOMAIN files = {} THEN "done" ELSE "group"
  /\ UNCHANGED <<nonSiteVars, files, clock, edits, runs, hadKey, quiet, mode, runConfig, refresh, queue,
                 nPlans, calls, writes, failure, filesAtFailure, repeat, groups, pages, outputs,
                 sitemap, moduleVars>>

\* line 421
BuildGroup ==
  /\ pc = "group"
  /\ groups' = groupByTranslation(plans)
  /\ pc' = "render"
  /\ UNCHANGED <<nonSiteVars, files, clock, edits, runs, hadKey, quiet, mode, runConfig, refresh, queue,
                 nPlans, calls, writes, failure, filesAtFailure, repeat, plans, pages, outputs,
                 sitemap, moduleVars>>

\* lines 423-442: every plan is rendered and written, concurrently
BuildRender ==
  /\ pc = "render"
  /\ outputs' \in Written(plans, { plans[i].relativeOutput : i \in 1..Len(plans) })
  /\ LET defaultLang == getDefaultLang(runConfig)
     IN pages' = [i \in 1..Len(plans) |->
                    renderTemplate(plans[i].meta, BaseUrl,
                                   buildAlternateLinks(plans[i], groups, BaseUrl, defaultLang),
                                   resolveCanonicalRelative(plans[i], groups))]
  /\ pc' = "sitemap"
  /\ UNCHANGED <<nonSiteVars, files, clock, edits, runs, hadKey, quiet, mode, runConfig, refresh, queue,
                 nPlans, calls, writes, failure, filesAtFailure, repeat, plans, groups,
                 sitemap, moduleVars>>

\* line 445; the link check is skipped (skipLinkCheck)
BuildSitemap ==
  /\ pc = "sitemap"
  /\ sitemap' = [written |-> TRUE,
                 rows |-> writeSitemap(plans, BaseUrl, getDefaultLang(runConfig), groups)]
  /\ pc' = "done"
  /\ UNCHANGED <<nonSiteVars, files, clock, edits, runs, hadKey, quiet, mode, runConfig, refresh, queue,
                 nPlans, calls, writes, failure, filesAtFailure, repeat, plans, groups, pages,
                 outputs, moduleVars>>

\* the call has returned or rejected
Finish ==
  /\ pc \in {"done", "rejected"}
  /\ pc' = "idle"
  /\ UNCHANGED <<nonSiteVars, files, clock, edits, runs, hadKey, quiet, runVars, moduleVars>>

BodyIdle == bBody = <<>> /\ bKind = "same" /\ bPc = "idle" /\ bLinks = <<>> /\ bText = <<>>

(***************************************************************************)
(* Building a site without translation.                                    *)
(***************************************************************************)
InitSite ==
  /\ BodyIdle /\ TplIdle /\ CallIdle /\ StageIdle /\ FlightIdle /\ CacheIdle /\ WatchIdle
  /\ files \in Contents(SiteDocs, MaxSiteDocs)
  /\ SiteLoaded

NextSite ==
  \/ \E d \in SiteDocs : WriteDoc(d, MaxSiteDocs)
  \/ \E cfg \in {CfgOff, CfgNoKey} : runs < MaxSiteRuns /\ StartBuild(cfg)
  \/ EnsureEnter
  \/ BuildCollect
  \/ BuildGroup
  \/ BuildRender
  \/ BuildSitemap
  \/ Finish

SpecSite == InitSite /\ [][NextSite]_vars

(***************************************************************************)
(* Translating, and building with translation.                             *)
(***************************************************************************)
InitTranslate ==
  /\ BodyIdle /\ TplIdle /\ CallIdle /\ StageIdle /\ FlightIdle /\ CacheIdle /\ WatchIdle
  /\ files \in Contents(TranslateDocs, MaxDocs)
  /\ SiteLoaded

NextTranslate ==
  \/ \E d \in TranslateDocs : WriteDoc(d, MaxDocs)
  \/ Tick
  \/ \E cfg \in {CfgEnFr, CfgNlFr} : StartBuild(cfg)
  \/ \E cfg \in {CfgEnFr, CfgNlFr}, r \in BOOLEAN : StartTranslate(cfg, r)
  \/ EnsureEnter
  \/ EnsureScan
  \/ TranslateStep
  \/ BuildCollect
  \/ BuildGroup
  \/ BuildRender
  \/ BuildSitemap
  \/ Finish

SpecTranslate == InitTranslate /\ [][NextTranslate]_vars

(***************************************************************************)
(* Properties of a build.                                                  *)
(***************************************************************************)
\* C2: no two render plans of a build have the same output path and are both
\* rendered and written: a build with two documents that resolve to one output
\* path fails before it renders them.
C2_OutputUnique ==
  \A i, j \in 1..Len(pages) : i # j => pages[i].output # pages[j].output

\* the plans of the translation group of plan i
GroupMembers(i) == { j \in 1..Len(plans) : GroupKey(plans[j]) = GroupKey(plans[i]) }

\* the members of that group in the default language of the site
DefaultMembers(i) ==
  { j \in GroupMembers(i) : plans[j].meta.lang = getDefaultLang(runConfig) }

\* C3: the canonical relative output of every rendered plan is the output of a
\* member of its translation group in the default language of the site, and its
\* own output only when the group has no such member.
C3_CanonicalIsDefaultMember ==
  \A i \in 1..Len(pages) :
    IF DefaultMembers(i) # {}
    THEN \E j \in DefaultMembers(i) : pages[i].canonicalRelative = plans[j].relativeOutput
    ELSE pages[i].canonicalRelative = plans[i].relativeOutput

\* the place of a language in the order C4 states: the default language, then
\* the supported languages in their configured order, then the others by name
ConfiguredRank(lang) ==
  LET defaultLang == getDefaultLang(runConfig)
      supportedLangs == getSupportedLangs(runConfig, defaultLang)
  IN IF lang = defaultLang THEN 0
     ELSE IF Includes(supportedLangs, lang)
       THEN CHOOSE k \in 1..Len(supportedLangs) :
              supportedLangs[k] = lang /\ \A m \in 1..(k - 1) : supportedLangs[m] # lang
       ELSE Len(supportedLangs) + AlphaRank(lang)

\* C4: the alternate links of every rendered plan list the default language
\* first, then the other languages in the configured order of the supported
\* languages, then unlisted languages alphabetically, and end with the one
\* x-default link, whose href is the canonical URL.
C4_AlternatesInConfiguredOrder ==
  \A i \in 1..Len(pages) :
    LET alts == pages[i].alternates
        n == Len(alts)
    IN /\ n >= 1
       /\ alts[n].lang = XDefault
       /\ alts[n].href = pages[i].canonicalUrl
       /\ \A k \in 1..(n - 1) : alts[k].lang # XDefault
       /\ \A j, k \in 1..(n - 1) :
            j < k => ConfiguredRank(alts[j].lang) <= ConfiguredRank(alts[k].lang)

\* C5: no translation group of a build holds two plans of one language.
C5_OneLanguagePerGroup ==
  \A key \in DOMAIN groups : \A i, j \in 1..Len(groups[key]) :
    i # j => groups[key][i].meta.lang # groups[key][j].meta.lang

\* the URL of an output path as C6 states it: without the .html suffix, and a
\* trailing /index or a bare index collapsed
DirectoryForm(output) ==
  LET n == Len(output)
      bare == IF n > 0 /\ output[n] = ".html" THEN SubSeq(output, 1, n - 1) ELSE output
      m == Len(bare)
  IN IF bare = <<"index">> THEN <<>>
     ELSE IF m >= 2 /\ bare[m - 1] = "/" /\ bare[m] = "index" THEN SubSeq(bare, 1, m - 2)
     ELSE bare
SiteUrl(output) == <<"https://example.com", "/">> \o DirectoryForm(output)
SitePath(output) == <<"/">> \o DirectoryForm(output)

\* the canonical link, the alternate links and the sitemap entries hold the
\* normalized absolute URL of the output they are derived from
AbsoluteUrlsNormalized ==
  /\ \A i \in 1..Len(pages) :
       /\ pages[i].canonicalUrl = SiteUrl(pages[i].canonicalRelative)
       /\ \A k \in 1..Len(pages[i].hreflang) :
            \E j \in GroupMembers(i) :
              /\ pages[i].hreflang[k].lang = plans[j].meta.lang
              /\ pages[i].hreflang[k].href = SiteUrl(plans[j].relativeOutput)
       /\ \A j \in GroupMembers(i) :
            \E k \in 1..Len(pages[i].hreflang) :
              pages[i].hreflang[k].href = SiteUrl(plans[j].relativeOutput)
  /\ \A r \in 1..Len(sitemap.rows) :
       /\ sitemap.rows[r].loc = SiteUrl(sitemap.rows[r].output)
       /\ \A k \in 1..Len(sitemap.rows[r].alternates) :
            \E j \in 1..Len(plans) :
              sitemap.rows[r].alternates[k].href = SiteUrl(plans[j].relativeOutput)

\* the links of the language switcher hold the absolute URL, or its path
SwitcherLinks(absolute) ==
  \A i \in 1..Len(pages) : \A k \in 1..Len(pages[i].languageSwitcher) :
    LET pill == pages[i].languageSwitcher[k]
    IN ~pill.isActive =>
         \E j \in GroupMembers(i) :
           /\ plans[j].meta.lang = pill.lang
           /\ pill.href = IF absolute THEN SiteUrl(plans[j].relativeOutput)
                           ELSE SitePath(plans[j].relativeOutput)

\* C6 as stated: the canonical link, the alternate links, the sitemap entries and
\* the links of the language switcher all hold the normalized absolute URL
\* (https://example.com/sub for sub/index.html, https://example.com/ for index.html).
C6_SameUrlInFourPlaces == AbsoluteUrlsNormalized /\ SwitcherLinks(TRUE)

\* C6 as amended: the canonical link, the alternate links and the sitemap entries
\* hold the normalized absolute URL; a link of the language switcher holds the
\* path of that URL (/sub for sub/index.html, / for index.html).
C6_NormalizedEverywhere == AbsoluteUrlsNormalized /\ SwitcherLinks(FALSE)

\* a finished build of index.md, sub/index.md and a French index: the sitemap
\* lists both index outputs and a language switcher links to the root
C6_Witness ==
  /\ pc = "done" /\ sitemap.written
  /\ \E r \in 1..Len(sitemap.rows) : sitemap.rows[r].output = <<"sub", "/", "index", ".html">>
  /\ \E r \in 1..Len(sitemap.rows) : sitemap.rows[r].output = <<"index", ".html">>
  /\ \E i \in 1..Len(pages) : \E k \in 1..Len(pages[i].languageSwitcher) :
       ~pages[i].languageSwitcher[k].isActive /\ pages[i].languageSwitcher[k].href = <<"/">>
  /\ \E i \in 1..Len(pages) : pages[i].canonicalUrl = <<"https://example.com", "/", "sub">>

(***************************************************************************)
(* Properties of the translation orchestrator.                             *)
(***************************************************************************)
\* C7: a run of ensureTranslations without forced refresh that follows a
\* completed run of ensureTranslations without forced refresh, with the same
\* configuration and no document written by the author in between, creates no
\* TranslatePlan, makes no call to the translator and writes no file.
C7_SecondRunIdle == repeat => (nPlans = 0 /\ calls = 0 /\ writes = <<>>)

\* such a second run has returned, and the content directory holds a source
\* document that a forced refresh would translate
C7_Witness ==
  /\ repeat /\ pc = "done" /\ mode = "translate"
  /\ translatorInstance = "translator"
  /\ \E p \in DOMAIN files : ScanFile(runConfig, TRUE, files, p) # <<>>

\* the language of a document as C8 resolves it: the language of the front
\* matter, else a first directory that is a supported language, else the default
ResolvedLang(cfg, fs, sourcePath) ==
  LET defaultLang == OrElse(cfg.defaultLang, EN)
      supportedLangs == IF cfg.supportedLangs = NoList THEN <<defaultLang>> ELSE cfg.supportedLangs
      firstSegment == Split(sourcePath, "/")[1]
  IN IF fs[sourcePath].meta.lang # Undefined THEN fs[sourcePath].meta.lang
     ELSE IF Includes(supportedLangs, firstSegment) THEN firstSegment
     ELSE defaultLang

EligibleSource(cfg, fs, sourcePath) ==
  /\ ResolvedLang(cfg, fs, sourcePath) = OrElse(cfg.defaultLang, EN)
  /\ isTranslateEnabled(fs[sourcePath].meta.translate)

\* the source document of a TranslatePlan
PlanSource(plan) == PathJoin(<<plan.sourceRelativeDir, plan.sourceFileName>>)

\* the scan of the run is over and nothing was translated yet
JustScanned ==
  /\ runConfig.translations /\ translatorInstance = "translator"
  /\ \/ pc = "translate" /\ Len(queue) = nPlans /\ writes = <<>>
     \/ pc \in {"done", "collect"} /\ nPlans = 0

\* C8: with refresh forced, the scan creates exactly one TranslatePlan for every
\* eligible source document and every configured target language, and no other
\* plan; a document is eligible when its resolved language is the default
\* language and its translate flag is enabled.
C8_ForcedPlans ==
  (refresh /\ JustScanned) =>
    \A p \in DOMAIN files : \A t \in 1..Len(runConfig.targetLanguages) :
      Cardinality({ i \in 1..Len(queue) :
                      PlanSource(queue[i]) = p
                        /\ queue[i].targetLang = runConfig.targetLanguages[t] })
        = IF EligibleSource(runConfig, files, p) THEN 1 ELSE 0

\* C9: when a call to the translator fails while a plan is translated, the run
\* rejects, the content directory is as it was when that plan was started (no
\* document is written for it), and build() creates no render plan and writes no
\* output document and no sitemap.
C9_FailureIsFatal ==
  failure =>
    /\ pc \in {"rejected", "idle"}
    /\ pc = "rejected" => files = filesAtFailure
    /\ plans = <<>> /\ pages = <<>> /\ outputs = {} /\ ~sitemap.written

\* a build was rejected by a call that failed after other calls of the run had
\* succeeded and a translation had been written
C9_Witness ==
  /\ failure /\ pc = "rejected" /\ mode = "build"
  /\ writes # <<>>
  /\ calls > 1

\* C10: a glossary lookup that fails leaves the translation without a glossary;
\* the service is asked for the glossary of a pair (default language, target
\* language) at most once; and a call is given no glossary or the glossary of
\* its own pair.
C10_GlossaryPerPair ==
  /\ \A i, j \in 1..Len(lookups) : i # j => lookups[i] # lookups[j]
  /\ \A u \in used : u.glossary \in {NoGlossary, GlossaryName(u.defaultLang, u.targetLang)}

(***************************************************************************)
(* One process in which ensureTranslations is called again and again, with  *)
(* and without an API key.                                                  *)
(***************************************************************************)
InitProcess ==
  /\ BodyIdle /\ TplIdle /\ CallIdle /\ StageIdle /\ FlightIdle /\ CacheIdle /\ WatchIdle
  /\ files \in Contents(TranslateDocs, MaxDocs)
  /\ SiteLoaded

NextProcess ==
  \/ \E d \in TranslateDocs : WriteDoc(d, MaxDocs)
  \/ \E cfg \in {CfgNoKey, CfgNoKeyQuiet, CfgEnFr}, r \in BOOLEAN : StartTranslate(cfg, r)
  \/ EnsureEnter
  \/ EnsureScan
  \/ TranslateStep
  \/ Finish

SpecProcess == InitProcess /\ [][NextProcess]_vars

\* C11: while no call of ensureTranslations in the process was configured with
\* an API key, no call creates a plan, calls the translator or writes a file,
\* and the 'skipping translations' warning was given at most once in total.
C11_NoKeyNoOp ==
  ~hadKey =>
    /\ pc \notin {"scan", "translate", "rejected"}
    /\ nPlans = 0 /\ calls = 0 /\ writes = <<>>
    /\ warnings <= 1

\* the second call without an API key has returned, the warning was given, and
\* the content directory holds a document that a translator would translate
C11_Witness ==
  /\ ~hadKey /\ runs = 2 /\ pc = "done"
  /\ translatorInstance = "null" /\ warnings = 1
  /\ Len(runConfig.targetLanguages) > 0
  /\ \E p \in DOMAIN files : ScanFile(runConfig, TRUE, files, p) # <<>>

(***************************************************************************)
(* Rendering one page into a template.                                     *)
(***************************************************************************)
MaxTemplateParts == 3
MaxBodyLen == 2

TemplateAtoms == {"<head>", "</head>", "</HEAD>", "{{TITLE}}", "{{BODY}}"}
TemplatesUpTo(max) == UNION { [1..n -> TemplateAtoms] : n \in 0..max }

\* the rendered body: text, and raw HTML of the document
HtmlAtoms == {"a", "</head>"}
HtmlBodiesUpTo(max) == UNION { [1..n -> HtmlAtoms] : n \in 0..max }

OgPng == <<"img", "/", "og", ".png">>
TwitterPng == <<"img", "/", "tw", ".png">>

\* the front matter of the page: `ogImage:` without a value is the empty string
PageFrontMatters ==
  { [EmptyMeta EXCEPT !.title = t, !.ogImage = o, !.twitterImage = w] :
      t \in {Undefined, <<"</head>">>}, o \in {Undefined, <<>>, OgPng},
      w \in {Undefined, <<>>, TwitterPng} }
  \cup { [EmptyMeta EXCEPT !.noindex = "true"] }

\* the PageMeta that createPlan merges for page.md with that front matter
PageMetaOf(frontMatter) ==
  createPlan(<<"page", ".md">>, [meta |-> frontMatter, body |-> <<>>], CfgOff, EN, <<EN>>).meta

\* the plan of the page and the head block build() makes for it (lines 423-440)
PagePlan(meta) ==
  [sourcePath |-> <<"page", ".md">>, relativeOutput |-> meta.output, meta |-> meta]

PageHeadTags(meta) ==
  LET plan == PagePlan(meta)
      gs == groupByTranslation(<<plan>>)
      page == renderTemplate(meta, BaseUrl, buildAlternateLinks(plan, gs, BaseUrl, EN),
                             resolveCanonicalRelative(plan, gs))
  IN generateHeadTags(meta, BaseUrl, page.canonicalUrl, page.pageUrl, page.alternates)

InitTemplate ==
  /\ BodyIdle /\ SiteIdle /\ CallIdle /\ StageIdle /\ FlightIdle /\ CacheIdle /\ WatchIdle
  /\ tTemplate \in TemplatesUpTo(MaxTemplateParts)
  /\ tBody \in HtmlBodiesUpTo(MaxBodyLen)
  /\ tMeta \in { PageMetaOf(fm) : fm \in PageFrontMatters }
  /\ tPc = "start"
  /\ tText = <<>>

\* lines 167-176
TemplateSubstitute ==
  /\ tPc = "start"
  /\ tText' = SubstitutePlaceholders(tTemplate, tBody, tMeta)
  /\ tPc' = "substituted"
  /\ UNCHANGED <<tTemplate, tBody, tMeta, nonTplVars>>

\* lines 178-192
TemplateInject ==
  /\ tPc = "substituted"
  /\ LET r == InjectHeadTags(tText, PageHeadTags(tMeta))
     IN /\ tText' = r.html
        /\ tPc' = IF r.thrown THEN "thrown" ELSE "returned"
  /\ UNCHANGED <<tTemplate, tBody, tMeta, nonTplVars>>

NextTemplate == TemplateSubstitute \/ TemplateInject

SpecTemplate == InitTemplate /\ [][NextTemplate]_vars

\* the head block as it stands in the page
HeadBlock(meta) == Join(PageHeadTags(meta), "\n") \o <<"\n">>

\* C12: when the template holds a closing head tag, renderTemplate returns the
\* template with its placeholders replaced and the head block immediately before
\* the first closing head tag of the template; when the template holds none,
\* renderTemplate throws and returns nothing, whatever the body and the
\* metadata hold.
C12_HeadBeforeTemplateHeadEnd ==
  tPc \in {"returned", "thrown"} =>
    LET k == HeadEndMatch(tTemplate)
    IN IF k = 0 THEN tPc = "thrown" /\ tText = <<>>
       ELSE /\ tPc = "returned"
            /\ tText = SubstitutePlaceholders(Slice(tTemplate, 1, k - 1), tBody, tMeta)
                         \o HeadBlock(tMeta)
                         \o SubstitutePlaceholders(Slice(tTemplate, k, Len(tTemplate)),
                                                   tBody, tMeta)

\* the page has an image of that kind
HasImage(image) == image # Undefined /\ image # <<>>

\* the lines of a rendered page that start with the atom `name`
TagLines(html, name) ==
  LET lines == Split(html, "\n")
  IN SelectSeq(lines, LAMBDA line : line # <<>> /\ Head(line) = name)

\* C13: in the head block of a rendered page there is an Open Graph image tag
\* exactly when the merged metadata has ogImage, and it holds ogImage; there is
\* a Twitter image tag exactly when the metadata has twitterImage, and it holds
\* twitterImage; and renderTemplate throws only for want of a closing head tag,
\* never for want of an image.
C13_ImageTagsIndependent ==
  /\ tPc = "returned" =>
       /\ TagLines(tText, "og:image=") =
            IF HasImage(tMeta.ogImage)
            THEN << <<"og:image=", "https://example.com", "/">> \o tMeta.ogImage >> ELSE <<>>
       /\ TagLines(tText, "twitter:image=") =
            IF HasImage(tMeta.twitterImage)
            THEN << <<"twitter:image=", "https://example.com", "/">> \o tMeta.twitterImage >>
            ELSE <<>>
  /\ tPc = "thrown" => HeadEndMatch(SubstitutePlaceholders(tTemplate, tBody, tMeta)) = 0

\* a page with ogImage and without twitterImage was rendered, and so was (in
\* another run) a page with neither
C13_Witness ==
  /\ tPc = "returned"
  /\ tMeta.ogImage = OgPng /\ tMeta.twitterImage = Undefined
  /\ TagLines(tText, "og:image=") # <<>>
  /\ TagLines(tText, "twitter:image=") = <<>>
  /\ HeadEndMatch(tTemplate) # 0

(***************************************************************************)
(* writeSitemap called with any list of plans.                             *)
(***************************************************************************)
MaxPlans == 3

NoIndex == [EmptyMeta EXCEPT !.noindex = "true"]

\* plans as createPlan makes them; three of them have the output page.html
SitemapPlans ==
  { createPlan(d.path, d, CfgNoKey, EN, CfgNoKey.supportedLangs) :
      d \in { Doc(<<"page", ".md">>, EmptyMeta, <<"a">>),
              Doc(<<"page", ".md">>, NoIndex, <<"a">>),
              Doc(<<"index", ".md">>, [EmptyMeta EXCEPT !.slug = <<"page">>], <<"a">>),
              Doc(<<"index", ".md">>, EmptyMeta, <<"a">>),
              Doc(<<"fr", "/", "page", ".md">>, EmptyMeta, <<"b">>),
              Doc(<<"sub", "/", "index", ".md">>, NoIndex, <<"a">>) } }

InitSitemap ==
  /\ BodyIdle /\ SiteIdle /\ TplIdle /\ StageIdle /\ FlightIdle /\ CacheIdle /\ WatchIdle
  /\ callPc = <<"writeSitemap", "called">>
  /\ callArgs \in [plans : UNION { [1..n -> SitemapPlans] : n \in 0..MaxPlans }]
  /\ callResult = <<>>

\* writeSitemap(plans, outputDir, baseUrl), lines 74-123
WriteSitemapCall ==
  /\ callPc = <<"writeSitemap", "called">>
  /\ callResult' = writeSitemap(callArgs.plans, BaseUrl, DEFAULT_LANG,
                                groupByTranslation(callArgs.plans))
  /\ callPc' = <<"writeSitemap", "returned">>
  /\ UNCHANGED <<callArgs, nonCallVars>>

NextSitemap == WriteSitemapCall

SpecSitemap == InitSitemap /\ [][NextSitemap]_vars

\* the last plan of the list with the output path o
LastPlanAt(ps, o) ==
  ps[CHOOSE i \in 1..Len(ps) :
       ps[i].relativeOutput = o /\ \A j \in (i + 1)..Len(ps) : ps[j].relativeOutput # o]

\* the output paths the sitemap lists: those whose last plan is not noindex
ListedOutputs(ps) ==
  { o \in { ps[i].relativeOutput : i \in 1..Len(ps) } :
      LastPlanAt(ps, o).meta.noindex # "true" }

\* C14: the sitemap has exactly one entry for every output path whose last plan
\* in the list is not noindex and no other entry; the entry is made from that
\* last plan; and the entries stand in ascending order of output path, whatever
\* the order of the list.
C14_SitemapEntries ==
  callPc = <<"writeSitemap", "returned">> =>
    LET ps == callArgs.plans
        rows == callResult
    IN /\ { rows[r].output : r \in 1..Len(rows) } = ListedOutputs(ps)
       /\ Len(rows) = Cardinality(ListedOutputs(ps))
       /\ \A r \in 1..(Len(rows) - 1) : PathLess(rows[r].output, rows[r + 1].output)
       /\ \A r \in 1..Len(rows) :
            /\ rows[r].loc = SiteUrl(rows[r].output)
            /\ rows[r].alternates =
                 SelectSeq(buildAlternateLinks(LastPlanAt(ps, rows[r].output),
                                               groupByTranslation(ps), BaseUrl, DEFAULT_LANG),
                           LAMBDA alt : alt.lang # XDefault)

\* a list out of order in which page.html comes twice, first as a noindex plan
\* and last as an indexed one: the sitemap lists index.html and page.html
C14_Witness ==
  /\ callPc = <<"writeSitemap", "returned">>
  /\ Len(callArgs.plans) = 3
  /\ callArgs.plans[1].relativeOutput = <<"page", ".html">>
  /\ callArgs.plans[1].meta.noindex = "true"
  /\ callArgs.plans[2].relativeOutput = <<"index", ".html">>
  /\ callArgs.plans[3].relativeOutput = <<"page", ".html">>
  /\ callArgs.plans[3].meta.noindex # "true"
  /\ Len(callResult) = 2

(***************************************************************************)
(* checkLinks over an output directory.                                    *)
(***************************************************************************)
MaxHrefs == 2

RootIndex == <<"index", ".html">>
RootB == <<"b", ".html">>
SubA == <<"sub", "/", "a", ".html">>
SubB == <<"sub", "/", "b", ".html">>
SubIndex == <<"sub", "/", "index", ".html">>

\* the links of the nested document sub/a.html
NestedHrefs ==
  { <<"b", ".html">>,             \* b.html
    <<"..", "/", "b">>,           \* ../b
    <<"/", "sub">>,               \* /sub
    <<"#", "a">>,                 \* #a
    <<"/", "b", "#", "a">>,       \* /b#a
    <<"https://", "x">> }         \* https://x

Html(hrefs, attrs) == [hrefs |-> hrefs, attrs |-> attrs]
Attr(name, value) == [name |-> name, value |-> value]

\* what each document of the output directory can hold
HtmlOf(path, maxHrefs) ==
  CASE path = RootIndex ->
         { Html(<< <<"#", "a">> >>, <<>>), Html(<<>>, <<Attr("id", <<"a">>)>>) }
    [] path = SubA ->
         { Html(h, a) : h \in UNION { [1..n -> NestedHrefs] : n \in 0..maxHrefs },
                        a \in {<<>>, <<Attr("id", <<"A">>)>>, <<Attr("data-id", <<"a">>)>>} }
    [] path = RootB ->
         { Html(<<>>, a) : a \in {<<>>, <<Attr("id", <<"A">>)>>} }
    [] OTHER -> { Html(<<>>, <<>>) }

\* the output directories that hold the documents `ps`
RECURSIVE TreesOver(_, _)
TreesOver(ps, maxHrefs) ==
  IF ps = {} THEN {<<>>}
  ELSE LET q == CHOOSE x \in ps : TRUE
       IN { [x \in DOMAIN t \cup {q} |-> IF x = q THEN h ELSE t[x]] :
              t \in TreesOver(ps \ {q}, maxHrefs), h \in HtmlOf(q, maxHrefs) }

\* the output directories of the model, with up to maxHrefs links in sub/a.html
LinkTrees(maxHrefs) ==
  UNION { TreesOver(ps, maxHrefs) : ps \in SUBSET {RootIndex, RootB, SubA, SubB, SubIndex} }

InitLinks ==
  /\ BodyIdle /\ SiteIdle /\ TplIdle /\ StageIdle /\ FlightIdle /\ CacheIdle /\ WatchIdle
  /\ callPc = <<"checkLinks", "called">>
  /\ callArgs \in [tree : LinkTrees(MaxHrefs)]
  /\ callResult = <<>>

\* lines 59-152: the documents are collected in directory order and scanned
CheckLinksScan ==
  /\ callPc = <<"checkLinks", "called">>
  /\ IF DOMAIN callArgs.tree = {}
     THEN callPc' = <<"checkLinks", "returned">> /\ callResult' = <<>>
     ELSE /\ \E htmlFiles \in CollectOrders(DOMAIN callArgs.tree) :
               callResult' = CollectMissing(callArgs.tree, htmlFiles)
          /\ callPc' = <<"checkLinks", "scanned">>
  /\ UNCHANGED <<callArgs, nonCallVars>>

\* lines 154-164: the broken links are thrown as one error
CheckLinksReport ==
  /\ callPc = <<"checkLinks", "scanned">>
  /\ callPc' = IF Len(callResult) > 0 THEN <<"checkLinks", "thrown">>
               ELSE <<"checkLinks", "returned">>
  /\ UNCHANGED <<callArgs, callResult, nonCallVars>>

NextLinks == CheckLinksScan \/ CheckLinksReport

SpecLinks == InitLinks /\ [][NextLinks]_vars

\* the scan of checkLinks is over
LinksScanned ==
  callPc \in {<<"checkLinks", "scanned">>, <<"checkLinks", "thrown">>,
              <<"checkLinks", "returned">>}

\* the number of entries of the `missing` array for href h of document f
ReportedTimes(f, h) ==
  Cardinality({ k \in 1..Len(callResult) :
                  callResult[k].fromFile = f /\ callResult[k].href = h })

\* the number of times h stands in document f
OccursTimes(f, h) ==
  LET hrefs == callArgs.tree[f].hrefs
  IN Cardinality({ i \in 1..Len(hrefs) : hrefs[i] = h })

\* the hrefs of document f
HrefsIn(f) == LET hrefs == callArgs.tree[f].hrefs IN { hrefs[i] : i \in 1..Len(hrefs) }

\* the path of an href: what stands before "#" and "?"
HrefPath(h) == Split(Split(h, "#")[1], "?")[1]

\* one of the three variations of a resolved path is a document: the path
\* itself, the path with .html, the path with index.html
SomeVariationIsFile(tree, resolved) ==
  \E k \in 1..3 : IsFile(tree, PathVariations(resolved)[k])

\* the path, taken from directory `base`, resolves
ResolvesFrom(tree, base, path) ==
  SomeVariationIsFile(tree, NormalizeSegments(base, Split(path, "/")))

\* C15: an href without fragment that is not skipped is reported as broken
\* exactly when it does not resolve: an href that begins with "/" against the
\* output root, an href that begins with "../" against the directory of its
\* document, and any other href against the output root and, failing that,
\* against the directory of its document.
C15_RootThenOwnDirectory ==
  LinksScanned =>
    \A f \in DOMAIN callArgs.tree : \A h \in HrefsIn(f) :
      (~isSkippableHref(h) /\ FirstIn(h, {"#"}, 1) = 0) =>
        LET path == HrefPath(h)
            tree == callArgs.tree
            resolves ==
              IF Head(path) = "/" THEN ResolvesFrom(tree, OutputDir, path)
              ELSE IF Len(path) >= 2 /\ path[1] = ".." /\ path[2] = "/"
                THEN ResolvesFrom(tree, FromDir(f), path)
              ELSE ResolvesFrom(tree, OutputDir, path) \/ ResolvesFrom(tree, FromDir(f), path)
        IN (ReportedTimes(f, h) > 0) <=> ~resolves

\* the document an href of document f leads to, as the validator resolves it
TargetOf(tree, f, h) == TargetFile(tree, resolveInternalPath(h, f, OutputDir))

\* an href is broken: no variation of its path is a document, or its fragment
\* is the normalized id of no element
BrokenHref(tree, f, h) ==
  /\ ~isSkippableHref(h)
  /\ IF Head(h) = "#"
     THEN Tail(h) # <<>> /\ slugifyAnchor(Tail(h)) \notin extractIdsFromHtml(tree[f])
     ELSE \/ ~SomeVariationIsFile(tree, resolveInternalPath(h, f, OutputDir))
          \/ /\ TargetOf(tree, f, h) # <<>>
             /\ extractAnchor(h) # <<>>
             /\ slugifyAnchor(extractAnchor(h))
                  \notin extractIdsFromHtml(ContentAt(tree, TargetOf(tree, f, h)[1]))

\* C16: checkLinks throws exactly when some href of some document is broken,
\* and only after every document was scanned: the error has one entry for every
\* occurrence of a broken href in the whole output directory, and no other.
C16_AllBrokenLinksReported ==
  /\ LinksScanned =>
       /\ \A f \in DOMAIN callArgs.tree : \A h \in HrefsIn(f) :
            ReportedTimes(f, h) =
              IF BrokenHref(callArgs.tree, f, h) THEN OccursTimes(f, h) ELSE 0
       /\ \A k \in 1..Len(callResult) :
            /\ callResult[k].fromFile \in DOMAIN callArgs.tree
            /\ callResult[k].href \in HrefsIn(callResult[k].fromFile)
  /\ callPc = <<"checkLinks", "thrown">> =>
       \E f \in DOMAIN callArgs.tree : \E h \in HrefsIn(f) : BrokenHref(callArgs.tree, f, h)
  /\ callPc = <<"checkLinks", "returned">> =>
       \A f \in DOMAIN callArgs.tree : \A h \in HrefsIn(f) : ~BrokenHref(callArgs.tree, f, h)

\* checkLinks has thrown three entries, for broken links of two documents
C16_Witness ==
  /\ callPc = <<"checkLinks", "thrown">>
  /\ Len(callResult) = 3
  /\ \E j, k \in 1..3 : callResult[j].fromFile # callResult[k].fromFile
  /\ \E j \in 1..3 : callResult[j].href = <<"#", "a">>

\* an element of the document has an id attribute that normalizes to the
\* normalized anchor
MatchesId(html, anchor) ==
  \E i \in 1..Len(html.attrs) :
    /\ html.attrs[i].name = "id"
    /\ slugifyAnchor(html.attrs[i].value) = slugifyAnchor(anchor)

\* C17: a same-document fragment href #a is reported exactly when no id
\* attribute of that document normalizes to slugifyAnchor(a); an href to
\* another document with a fragment, whose document is found, is reported
\* exactly when no id attribute of that document does.
C17_FragmentMatchesIdAttribute ==
  LinksScanned =>
    \A f \in DOMAIN callArgs.tree : \A h \in HrefsIn(f) :
      LET tree == callArgs.tree
      IN IF Head(h) = "#"
         THEN Tail(h) # <<>> =>
                ((ReportedTimes(f, h) = 0) <=> MatchesId(tree[f], Tail(h)))
         ELSE (~isSkippableHref(h) /\ extractAnchor(h) # <<>> /\ TargetOf(tree, f, h) # <<>>) =>
                ((ReportedTimes(f, h) = 0)
                   <=> MatchesId(ContentAt(tree, TargetOf(tree, f, h)[1]), extractAnchor(h)))

(***************************************************************************)
(* createPlan called for any one document under any configuration.         *)
(***************************************************************************)
HouseRules == <<"house", "-", "rules">>
RopeJam == <<"rope", "-", "jam">>

PlanPaths ==
  { <<"page", ".md">>,
    <<"fr", "/", "page", ".md">>,
    <<"en", "/", "page", ".md">>,
    HouseRules \o <<"/">> \o RopeJam \o <<".md">>,
    <<"fr", "/", "sub", "/", "page", ".md">>,
    <<"sub", "/", "fr", "/", "A", " ", "b", ".md">> }

\* front-matter slugs: none, plain, with a separator, in need of sanitizing
PlanSlugs == { Undefined, RopeJam, <<"39c3", "/", "rope">>, <<"A", "_", "b">>, <<"/", "b">> }

\* front-matter languages: none, supported ones, upper case, one no site supports
PlanLangs == { Undefined, EN, FR, <<"EN">>, <<"de">> }

PlanDocs ==
  { Doc(p, [EmptyMeta EXCEPT !.slug = s, !.lang = l], <<"a">>) :
      p \in PlanPaths, s \in PlanSlugs, l \in PlanLangs }

PlanConfigs == { CfgOff, CfgNoKey, CfgEnFr, CfgNlFr }

InitPlan ==
  /\ BodyIdle /\ SiteIdle /\ TplIdle /\ StageIdle /\ FlightIdle /\ CacheIdle /\ WatchIdle
  /\ callPc = <<"createPlan", "called">>
  /\ callArgs \in [doc : PlanDocs, config : PlanConfigs]
  /\ callResult = <<>>

\* build(), lines 400-401 and 412-416: the plan of one collected document
CreatePlanCall ==
  /\ callPc = <<"createPlan", "called">>
  /\ LET defaultLang == getDefaultLang(callArgs.config)
         supportedLangs == getSupportedLangs(callArgs.config, defaultLang)
     IN callResult' = << createPlan(callArgs.doc.path, callArgs.doc, callArgs.config,
                                    defaultLang, supportedLangs) >>
  /\ callPc' = <<"createPlan", "returned">>
  /\ UNCHANGED <<callArgs, nonCallVars>>

NextPlan == CreatePlanCall

SpecPlan == InitPlan /\ [][NextPlan]_vars

\* the segments of the source path before the file name
SourceDirectory(path) == LET segs == Split(path, "/") IN SubSeq(segs, 1, Len(segs) - 1)

\* the slug of the plan: the sanitized front-matter slug, else the sanitized file name
PlanSlug(doc) ==
  LET segs == Split(doc.path, "/")
      name == segs[Len(segs)]
  IN sanitizeSlug(IF doc.meta.slug # Undefined THEN doc.meta.slug
                  ELSE SubSeq(name, 1, Len(name) - 1))

HasSeparator(s) == \E i \in 1..Len(s) : s[i] = "/"

\* C18: the output path of a plan is the sanitized slug plus .html, used whole,
\* when the slug holds a path separator; otherwise it is the directory of the
\* source, every segment of it kept (a leading language directory too),
\* followed by <slug>.html.
C18_OutputPath ==
  callPc = <<"createPlan", "returned">> =>
    LET doc == callArgs.doc
        slug == PlanSlug(doc)
        plan == callResult[1]
    IN /\ plan.meta.slug = slug
       /\ plan.meta.output = plan.relativeOutput
       /\ plan.relativeOutput =
            IF HasSeparator(slug) THEN slug \o <<".html">>
            ELSE Join(SourceDirectory(doc.path) \o <<slug \o <<".html">>>>, "/")

\* content/fr/page.md was planned as fr/page.html under a site that supports fr
C18_Witness ==
  /\ callPc = <<"createPlan", "returned">>
  /\ callArgs.doc.path = <<"fr", "/", "page", ".md">>
  /\ callArgs.doc.meta.slug = Undefined
  /\ callArgs.config = CfgNoKey
  /\ callResult[1].meta.lang = FR
  /\ callResult[1].relativeOutput = <<"fr", "/", "page", ".html">>

\* the supported languages and the default language createPlan is given
PlanSupported ==
  getSupportedLangs(callArgs.config, getDefaultLang(callArgs.config))

PlanDefault == getDefaultLang(callArgs.config)

\* the language of the directory: the first segment of the source path when it
\* is a supported language, else the default language
DirectoryLang(path) ==
  LET first == Split(path, "/")[1]
  IN IF Includes(PlanSupported, first) THEN first ELSE PlanDefault

MaxLines == 4

Quote == "\""
BackSlash == "\\"

\* the lines a raw text is made of: boundaries (one with trailing white space),
\* a line that only looks like one, and metadata lines with and without a key
\* and a colon
FrontMatterLines ==
  { <<"---">>, <<"---", " ">>, <<" ", "---">>, <<>>, <<"a">>,
    <<"title", ":", " ", "a">>, <<":", "a">>, <<" ", ":", "a">>, <<"title", ":">>,
    <<"noindex", ":", " ", "Yes">>, <<"title", ":", "a", ":", "a">>,
    <<"title", ":", " ", Quote, "a", BackSlash, Quote, Quote>> }

RawTexts(maxLines) ==
  { Join(ls, "\n") : ls \in UNION { [1..n -> FrontMatterLines] : n \in 0..maxLines } }

InitFrontMatter ==
  /\ BodyIdle /\ SiteIdle /\ TplIdle /\ StageIdle /\ FlightIdle /\ CacheIdle /\ WatchIdle
  /\ callPc = <<"extractFrontMatter", "called">>
  /\ callArgs \in [raw : RawTexts(MaxLines)]
  /\ callResult = <<>>

\* extractFrontMatter(raw), lines 5-29
ExtractFrontMatterCall ==
  /\ callPc = <<"extractFrontMatter", "called">>
  /\ callResult' = << extractFrontMatter(callArgs.raw) >>
  /\ callPc' = <<"extractFrontMatter", "returned">>
  /\ UNCHANGED <<callArgs, nonCallVars>>

NextFrontMatter == ExtractFrontMatterCall

SpecFrontMatter == InitFrontMatter /\ [][NextFrontMatter]_vars

\* the lines of the raw text
RawLines == Split(callArgs.raw, "\n")

\* the raw text has a boundary pair: its first line is a boundary marker and so
\* is a later line
HasBoundaryPair ==
  /\ IsBoundary(RawLines[1])
  /\ \E i \in 2..Len(RawLines) : IsBoundary(RawLines[i])

\* the metadata lines: those between the first line and the next boundary
MetaLines ==
  LET close == CHOOSE i \in 2..Len(RawLines) :
                 IsBoundary(RawLines[i]) /\ \A j \in 2..(i - 1) : ~IsBoundary(RawLines[j])
  IN SubSeq(RawLines, 2, close - 1)

\* a line has the shape `key: value`: it holds a colon and text before it
HasKeyValueShape(line) ==
  \E i \in 2..Len(line) : line[i] = ":" /\ \A j \in 1..(i - 1) : line[j] # ":"

\* the key of a line of that shape, trimmed
KeyOf(line) ==
  LET i == CHOOSE k \in 1..Len(line) : line[k] = ":" /\ \A j \in 1..(k - 1) : line[j] # ":"
  IN Trim(SubSeq(line, 1, i - 1))

\* C20: a raw text without a boundary pair gives empty metadata and the trimmed
\* raw text as body; the call returns for every raw text; and the metadata of
\* a text with a boundary pair are those of its metadata lines of the shape
\* `key: value` alone, the other lines adding nothing.
C20_NoPairNoMetaAndLinesSkipped ==
  /\ callPc # <<"extractFrontMatter", "thrown">>
  /\ callPc = <<"extractFrontMatter", "returned">> =>
       LET result == callResult[1]
       IN /\ ~HasBoundaryPair =>
               /\ result.meta = NoMeta
               /\ result.body = Trim(callArgs.raw)
          /\ HasBoundaryPair =>
               LET shaped == SelectSeq(MetaLines, HasKeyValueShape)
               IN /\ result.meta = parseMeta(shaped)
                  /\ DOMAIN result.meta = { KeyOf(shaped[i]) : i \in 1..Len(shaped) }

\* a text whose first line is a boundary and that has no second one was
\* returned whole, and so was (in another call) a text with a boundary pair
\* around a line without a colon
C20_Witness ==
  /\ callPc = <<"extractFrontMatter", "returned">>
  /\ callArgs.raw = <<"---", "\n", "title", ":", " ", "a", "\n", " ", "---">>
  /\ callResult[1].meta = NoMeta
  /\ callResult[1].body = callArgs.raw
(***************************************************************************)
(* build() followed stage by stage (translations.ts 388-453): the tasks    *)
(* of a Promise.all run in any order, and go on when one of them has       *)
(* rejected.                                                               *)
(***************************************************************************)
IndexMd == <<"index", ".md">>
PageMd == <<"page", ".md">>
SubPageMd == <<"sub", "/", "page", ".md">>
StageDocs == {IndexMd, PageMd, SubPageMd}

\* page.md and sub/page.md have `translate: true`; the target language is fr
StageTarget(d) == <<"fr", "/">> \o d
StageSources(docs) == { d \in docs \cap {PageMd, SubPageMd} : StageTarget(d) \notin docs }

StageConfigs ==
  [translations : BOOLEAN, pageTemplateHasHeadEnd : BOOLEAN, skipLinkCheck : BOOLEAN]

\* Promise.any: the promise resolves when one task has
AnyResolved(tasks, done) == done # {}

\* Promise.all(tasks) resolves when every task has
AllResolved(tasks, done) == done = tasks

InitStages ==
  /\ BodyIdle /\ SiteIdle /\ TplIdle /\ CallIdle /\ FlightIdle /\ CacheIdle /\ WatchIdle
  /\ stage = "idle"
  /\ stageConfig \in StageConfigs
  /\ content \in SUBSET StageDocs
  /\ pending = <<>> /\ translated = {} /\ collected = {} /\ created = {} /\ grouped = <<>>
  /\ pagesRendered = {} /\ pagesThrown = {} /\ pagesWritten = {}
  /\ sitemapDone = FALSE /\ scanned = {}

\* lines 388-400
StageStart ==
  /\ stage = "idle"
  /\ stage' = "ensure"
  /\ UNCHANGED <<nonStageVars, stageConfig, content, pending, translated, collected, created,
                 grouped, pagesRendered, pagesThrown, pagesWritten, sitemapDone, scanned>>

\* lines 402-405 and ensureTranslations 23-101: the scan, in directory order
StageEnsure ==
  /\ stage = "ensure"
  /\ IF stageConfig.translations
     THEN \E order \in CollectOrders(StageSources(content)) :
            /\ pending' = order
            /\ stage' = IF order = <<>> THEN "collect" ELSE "translate"
     ELSE pending' = <<>> /\ stage' = "collect"
  /\ UNCHANGED <<nonStageVars, stageConfig, content, translated, collected, created,
                 grouped, pagesRendered, pagesThrown, pagesWritten, sitemapDone, scanned>>

\* ensureTranslations 103-114, one turn: the translation is written, or the
\* translator fails and build() rejects
StageTranslate ==
  /\ stage = "translate"
  /\ \/ /\ content' = content \cup {StageTarget(Head(pending))}
        /\ translated' = translated \cup {StageTarget(Head(pending))}
        /\ pending' = Tail(pending)
        /\ stage' = IF pending' = <<>> THEN "collect" ELSE "translate"
     \/ /\ stage' = "rejected"
        /\ UNCHANGED <<content, translated, pending>>
  /\ UNCHANGED <<nonStageVars, stageConfig, collected, created,
                 grouped, pagesRendered, pagesThrown, pagesWritten, sitemapDone, scanned>>

\* lines 407-412
StageCollect ==
  /\ stage = "collect"
  /\ collected' = content
  /\ stage' = IF content = {} THEN "returned" ELSE "plans"
  /\ UNCHANGED <<nonStageVars, stageConfig, content, pending, translated, created,
                 grouped, pagesRendered, pagesThrown, pagesWritten, sitemapDone, scanned>>

\* lines 415-419: one createPlan resolves
StageCreatePlan ==
  /\ stage = "plans"
  /\ \E d \in collected \ created : created' = created \cup {d}
  /\ UNCHANGED <<nonStageVars, stage, stageConfig, content, pending, translated, collected,
                 grouped, pagesRendered, pagesThrown, pagesWritten, sitemapDone, scanned>>

\* lines 415 and 421: the plans are awaited and grouped
StageGroup ==
  /\ stage = "plans"
  /\ AllResolved(collected, created)
  /\ grouped' = <<created>>
  /\ stage' = "render"
  /\ UNCHANGED <<nonStageVars, stageConfig, content, pending, translated, collected, created,
                 pagesRendered, pagesThrown, pagesWritten, sitemapDone, scanned>>

\* whether renderTemplate throws for the plan: the page template has no closing
\* head tag; the home page has its own template
RenderThrows(d) == d # IndexMd /\ ~stageConfig.pageTemplateHasHeadEnd

\* lines 424-437: renderTemplate of one plan returns or throws; the first
\* throw rejects the Promise.all and build()
StageRender ==
  /\ grouped # <<>>
  /\ \E d \in grouped[1] \ (pagesRendered \cup pagesThrown) :
       IF RenderThrows(d)
       THEN /\ pagesThrown' = pagesThrown \cup {d}
            /\ stage' = IF stage = "render" THEN "rejected" ELSE stage
            /\ UNCHANGED pagesRendered
       ELSE /\ pagesRendered' = pagesRendered \cup {d}
            /\ UNCHANGED <<pagesThrown, stage>>
  /\ UNCHANGED <<nonStageVars, stageConfig, content, pending, translated, collected, created,
                 grouped, pagesWritten, sitemapDone, scanned>>

\* line 438
StageWrite ==
  /\ \E d \in pagesRendered \ pagesWritten : pagesWritten' = pagesWritten \cup {d}
  /\ UNCHANGED <<nonStageVars, stage, stageConfig, content, pending, translated, collected,
                 created, grouped, pagesRendered, pagesThrown, sitemapDone, scanned>>

\* lines 423 and 445-448: the pages are awaited and the sitemap is written
StageSitemap ==
  /\ stage = "render"
  /\ AllResolved(created, pagesWritten)
  /\ sitemapDone' = TRUE
  /\ stage' = IF stageConfig.skipLinkCheck THEN "returned" ELSE "links"
  /\ UNCHANGED <<nonStageVars, stageConfig, content, pending, translated, collected, created,
                 grouped, pagesRendered, pagesThrown, pagesWritten, scanned>>

\* checkLinks 67-72: the validator reads one page
StageScan ==
  /\ stage = "links"
  /\ \E d \in pagesWritten \ scanned : scanned' = scanned \cup {d}
  /\ UNCHANGED <<nonStageVars, stage, stageConfig, content, pending, translated, collected,
                 created, grouped, pagesRendered, pagesThrown, pagesWritten, sitemapDone>>

\* checkLinks 154-164 and line 452: it throws when a link is broken
StageLinksDone ==
  /\ stage = "links"
  /\ scanned = pagesWritten
  /\ stage' \in {"returned", "rejected"}
  /\ UNCHANGED <<nonStageVars, stageConfig, content, pending, translated, collected, created,
                 grouped, pagesRendered, pagesThrown, pagesWritten, sitemapDone, scanned>>

NextStages ==
  \/ StageStart
  \/ StageEnsure
  \/ StageTranslate
  \/ StageCollect
  \/ StageCreatePlan
  \/ StageGroup
  \/ StageRender
  \/ StageWrite
  \/ StageSitemap
  \/ StageScan
  \/ StageLinksDone

SpecStages == InitStages /\ [][NextStages]_vars

\* where the stages of a run stand
StagesInOrder ==
  /\ created # {} => stage \notin {"idle", "ensure", "translate"} /\ pending = <<>>
  /\ grouped # <<>> => created = collected /\ grouped[1] = created
  /\ pagesRendered \cup pagesThrown \cup pagesWritten # {} => grouped # <<>>
  /\ pagesWritten \subseteq pagesRendered
  /\ (sitemapDone \/ stage = "links" \/ scanned # {}) => pagesWritten = created
  /\ stage = "links" => sitemapDone

\* a step that writes a translated document is taken before any plan exists, and
\* a step of the link validator changes neither content, pages nor sitemap
StepsInOrder ==
  /\ translated' # translated => created = {} /\ created' = {}
  /\ (stage = "links" \/ scanned' # scanned) =>
       UNCHANGED <<content, translated, pagesWritten, sitemapDone>>

\* C21: in every run of build() translation is over before the first plan is
\* created, every plan exists before the groups are computed, the groups exist
\* before a template is rendered or a page written, the sitemap is written and
\* the link validator started only when every page is written, and the link
\* validator writes nothing.
C21_StagesGated == []StagesInOrder /\ [][StepsInOrder]_vars

\* a build with translation and link check has returned: three documents and a
\* translation were planned, rendered, written and scanned
C21_Witness ==
  /\ stage = "returned"
  /\ translated # {}
  /\ Cardinality(created) >= 3
  /\ pagesWritten = created /\ sitemapDone /\ scanned = pagesWritten
(***************************************************************************)
(* ensureTranslations followed call by call: the translateText calls of    *)
(* translateMetaFields (153-176) and of the body (242-247) are awaited one *)
(* by one; those of the link texts are made inside one Promise.all         *)
(* (249-259).                                                              *)
(***************************************************************************)
MaxLinks == 2

RECURSIVE LinkedBody(_)
\* a body with n links
LinkedBody(n) ==
  IF n = 0 THEN <<"a">>
  ELSE LinkedBody(n - 1) \o <<" ">> \o MakeLink(<<"a">>, <<"u">>)

\* documents to translate: `lang: en` and `translate: true`
FlightDocs(maxLinks) ==
  { Doc(p, [Translate EXCEPT !.lang = EN], LinkedBody(n)) :
      p \in {PageMd, SubPageMd}, n \in 0..maxLinks }

\* the translateText calls of the plan at the head of the queue, in the order
\* of PlanRequests
FlightRequests == IF flightQueue = <<>> THEN <<>> ELSE PlanRequests(Head(flightQueue))

\* the calls in flight: made and not yet answered
InFlight == flightSent \ flightAnswered

\* the calls made one after the other, and those of the link texts
AwaitedCalls == { i \in 1..Len(FlightRequests) : FlightRequests[i].field # "link" }
LinkCalls == { i \in 1..Len(FlightRequests) : FlightRequests[i].field = "link" }

InitFlight ==
  /\ BodyIdle /\ TplIdle /\ CallIdle /\ StageIdle /\ CacheIdle /\ WatchIdle
  /\ files \in Contents(FlightDocs(MaxLinks), MaxDocs)
  /\ SiteLoaded
  /\ flightPc = "idle" /\ flightQueue = <<>> /\ flightSent = {} /\ flightAnswered = {}
  /\ flightWritten = 0

\* ensureTranslations(config, contentDir, true), lines 23-101
FlightScan ==
  /\ flightPc = "idle"
  /\ \E markdownFiles \in CollectOrders(DOMAIN files) :
       flightQueue' = ScanFiles(CfgEnFr, TRUE, files, markdownFiles)
  /\ flightPc' = IF flightQueue' = <<>> THEN "done" ELSE "translate"
  /\ UNCHANGED <<nonFlightVars, flightSent, flightAnswered, flightWritten>>

\* lines 166-175 and 242-247: the next call of the fields and the body is made
\* when the one before it is answered
FlightCall ==
  /\ flightPc = "translate"
  /\ InFlight = {}
  /\ \E i \in AwaitedCalls \ flightSent :
       /\ \A j \in AwaitedCalls : j < i => j \in flightSent
       /\ flightSent' = flightSent \cup {i}
  /\ UNCHANGED <<nonFlightVars, flightPc, flightQueue, flightAnswered, flightWritten>>

\* lines 249-259: once the body is answered, every link text has its own task,
\* and each task makes its call
FlightLinkCall ==
  /\ flightPc \in {"translate", "rejected"}
  /\ AwaitedCalls \subseteq flightAnswered
  /\ \E i \in LinkCalls \ flightSent : flightSent' = flightSent \cup {i}
  /\ UNCHANGED <<nonFlightVars, flightPc, flightQueue, flightAnswered, flightWritten>>

\* the service answers a call, or fails it: the failure rejects ensureTranslations
FlightAnswer ==
  /\ flightPc \in {"translate", "rejected"}
  /\ \E i \in InFlight :
       /\ flightAnswered' = flightAnswered \cup {i}
       /\ flightPc' \in {flightPc, "rejected"}
  /\ UNCHANGED <<nonFlightVars, flightQueue, flightSent, flightWritten>>

\* lines 104-113: every call of the plan is answered, its document is written
FlightWrite ==
  /\ flightPc = "translate"
  /\ flightQueue # <<>>
  /\ flightAnswered = 1..Len(FlightRequests)
  /\ flightWritten' = flightWritten + 1
  /\ flightQueue' = Tail(flightQueue)
  /\ flightSent' = {} /\ flightAnswered' = {}
  /\ flightPc' = IF flightQueue' = <<>> THEN "done" ELSE "translate"
  /\ UNCHANGED nonFlightVars

NextFlight == FlightScan \/ FlightCall \/ FlightLinkCall \/ FlightAnswer \/ FlightWrite

SpecFlight == InitFlight /\ [][NextFlight]_vars

\* C22: at every moment of ensureTranslations at most one call of the
\* translation capability is in flight, across the plans and within a plan
\* (slug, metadata fields, body and link texts).
C22_OneCallInFlight == Cardinality(InFlight) <= 1

(***************************************************************************)
(* The template caches (template.ts).                                      *)
(***************************************************************************)
MaxCacheEdits == 2
MaxReading == 2

TemplatePath == "page.html"
HomepageTemplatePath == "home.html"
TemplatePaths == {TemplatePath, HomepageTemplatePath}
\* no homepageTemplatePath: undefined or the empty string
NoPath == ""
\* the texts a template file can have; <<>> is the empty file
TemplateTexts == {<<>>, <<"a">>}
NoCache == [p \in TemplatePaths |-> Undefined]
NoRead == [c \in {"template", "homepage"} |-> NoCache]
\* `first`: the text the first load since the last invalidation had read when
\* this load returned
NoLoad == [cache |-> "none", path |-> "none", text |-> Undefined, first |-> Undefined, raced |-> FALSE]

\* a load that waits for readFile: `texts` are the texts the file had since the
\* call, `raced` whether another load of the same cache and path, or an
\* invalidation, happened meanwhile
Read(c, p) ==
  [cache |-> c, path |-> p, texts |-> {templateFiles[p]},
   raced |-> \E i \in 1..Len(reading) : reading[i].cache = c /\ reading[i].path = p]

Overlapped(c, p) ==
  [i \in 1..Len(reading) |->
     IF reading[i].cache = c /\ reading[i].path = p
     THEN [reading[i] EXCEPT !.raced = TRUE] ELSE reading[i]]

\* the cache lookup of a load: `if (cached) return cached`, else readFile
Lookup(c, cached, p) ==
  IF Truthy(cached)
  THEN /\ lastLoad' = [cache |-> c, path |-> p, text |-> cached,
                         first |-> firstRead[c][p], raced |-> FALSE]
       /\ UNCHANGED reading
  ELSE /\ Len(reading) < MaxReading
       /\ reading' = Append(Overlapped(c, p), Read(c, p))
       /\ UNCHANGED lastLoad

loadTemplate(templatePath) ==
  /\ Lookup("template", templateCache[templatePath], templatePath)
  /\ UNCHANGED <<templateFiles, templateCache, homepageTemplateCache, firstRead, cacheEdits>>

loadHomepageTemplate(homepageTemplatePath, fallbackTemplatePath) ==
  IF homepageTemplatePath = NoPath
  THEN loadTemplate(fallbackTemplatePath)
  ELSE /\ Lookup("homepage", homepageTemplateCache[homepageTemplatePath], homepageTemplatePath)
       /\ UNCHANGED <<templateFiles, templateCache, homepageTemplateCache, firstRead, cacheEdits>>

LoadTemplateCall ==
  /\ \E p \in TemplatePaths : loadTemplate(p)
  /\ UNCHANGED nonCacheVars

LoadHomepageTemplateCall ==
  /\ \E h \in TemplatePaths \cup {NoPath}, p \in TemplatePaths : loadHomepageTemplate(h, p)
  /\ UNCHANGED nonCacheVars

\* readFile resolves: the load stores the text and returns it
LoadSettle ==
  /\ \E i \in 1..Len(reading) : \E text \in reading[i].texts :
       LET r == reading[i] IN
       /\ reading' = [j \in 1..(Len(reading) - 1) |-> IF j < i THEN reading[j] ELSE reading[j + 1]]
       /\ IF r.cache = "template"
          THEN /\ templateCache' = [templateCache EXCEPT ![r.path] = text]
               /\ UNCHANGED homepageTemplateCache
          ELSE /\ homepageTemplateCache' = [homepageTemplateCache EXCEPT ![r.path] = text]
               /\ UNCHANGED templateCache
       /\ firstRead' = IF firstRead[r.cache][r.path] = Undefined
                       THEN [firstRead EXCEPT ![r.cache][r.path] = text] ELSE firstRead
       /\ lastLoad' = [cache |-> r.cache, path |-> r.path, text |-> text,
                         first |-> firstRead'[r.cache][r.path], raced |-> r.raced]
  /\ UNCHANGED <<templateFiles, cacheEdits>>
  /\ UNCHANGED nonCacheVars

\* clearTemplateCache()
Cleared ==
  /\ templateCache' = NoCache
  /\ homepageTemplateCache' = NoCache
  /\ firstRead' = NoRead
  /\ reading' = [i \in 1..Len(reading) |-> [reading[i] EXCEPT !.raced = TRUE]]

ClearTemplateCacheCall ==
  /\ Cleared
  /\ UNCHANGED <<templateFiles, lastLoad, cacheEdits>>
  /\ UNCHANGED nonCacheVars

\* the author changes a template file
EditTemplate ==
  /\ cacheEdits < MaxCacheEdits
  /\ \E p \in TemplatePaths, text \in TemplateTexts :
       /\ text # templateFiles[p]
       /\ templateFiles' = [templateFiles EXCEPT ![p] = text]
       /\ reading' = [i \in 1..Len(reading) |->
                        IF reading[i].path = p
                        THEN [reading[i] EXCEPT !.texts = @ \cup {text}] ELSE reading[i]]
  /\ cacheEdits' = cacheEdits + 1
  /\ UNCHANGED <<templateCache, homepageTemplateCache, firstRead, lastLoad>>
  /\ UNCHANGED nonCacheVars

CachesEmpty ==
  /\ templateFiles \in [TemplatePaths -> TemplateTexts]
  /\ templateCache = NoCache /\ homepageTemplateCache = NoCache
  /\ reading = <<>> /\ firstRead = NoRead /\ lastLoad = NoLoad /\ cacheEdits = 0

InitCache ==
  /\ BodyIdle /\ SiteIdle /\ TplIdle /\ CallIdle /\ StageIdle /\ FlightIdle /\ WatchIdle
  /\ CachesEmpty

NextCache ==
  \/ LoadTemplateCall
  \/ LoadHomepageTemplateCall
  \/ LoadSettle
  \/ ClearTemplateCacheCall
  \/ EditTemplate

SpecCache == InitCache /\ [][NextCache]_vars

\* C24: between two invalidations, a load that returned, and that no other load
\* of the same cache and path and no invalidation overlapped, returned the text
\* that the first load since the last invalidation read
C24_LoadsReturnFirstRead ==
  (lastLoad # NoLoad /\ ~lastLoad.raced)
    => lastLoad.text = lastLoad.first


(***************************************************************************)
(* The watch loop of startDevServer (dev-server.ts).                       *)
(***************************************************************************)
MaxTriggers == 3

\* the files whose change triggers a build: a document, and the two templates
WatchedFiles == {"content/page.md", TemplatePath, HomepageTemplatePath}

\* the loop as queueBuild sees it
Loop ==
  [isBuilding |-> isBuilding, shouldRebuild |-> shouldRebuild, building |-> building,
   buildsStarted |-> buildsStarted, lastStart |-> lastStart]

\* queueBuild that starts a build whether or not one is running
queueBuildUnguarded(w, now) ==
  [w EXCEPT !.isBuilding = TRUE, !.building = @ + 1, !.buildsStarted = @ + 1,
            !.lastStart = now]

\* queueBuild, after the template cache: note the request while a build is
\* running, else start build(config)
queueBuild(w, now) ==
  IF w.isBuilding
  THEN [w EXCEPT !.shouldRebuild = TRUE]
  ELSE [w EXCEPT !.isBuilding = TRUE, !.building = @ + 1, !.buildsStarted = @ + 1,
                 !.lastStart = now]

\* a .finally that forgets the noted request
finallyForgets(w, now) ==
  [w EXCEPT !.isBuilding = FALSE, !.building = @ - 1, !.shouldRebuild = FALSE]

\* the .finally of the build's promise
finally(w, now) ==
  LET settled == [w EXCEPT !.isBuilding = FALSE, !.building = @ - 1] IN
  IF settled.shouldRebuild
  THEN queueBuild([settled EXCEPT !.shouldRebuild = FALSE], now)
  ELSE settled

\* the loop after a call, and the caches: clearTemplateCache() of queueBuild for
\* a template file, and of build() when a build was started
Looped(w, clear) ==
  /\ isBuilding' = w.isBuilding
  /\ shouldRebuild' = w.shouldRebuild
  /\ building' = w.building
  /\ buildsStarted' = w.buildsStarted
  /\ lastStart' = w.lastStart
  /\ watchClock' = watchClock + 1
  /\ IF clear \/ w.buildsStarted # buildsStarted
     THEN Cleared
     ELSE UNCHANGED <<templateCache, homepageTemplateCache, firstRead, reading>>
  /\ UNCHANGED <<templateFiles, lastLoad, cacheEdits>>

\* the watcher reports a file: queueBuild(filePath)
WatchTrigger ==
  /\ triggers < MaxTriggers
  /\ \E filePath \in WatchedFiles :
       Looped(queueBuild(Loop, watchClock + 1), filePath \in TemplatePaths)
  /\ triggers' = triggers + 1
  /\ lastTrigger' = watchClock + 1
  /\ waiting' = IF building > 0 THEN waiting + 1 ELSE 0
  /\ UNCHANGED buildsFailed
  /\ UNCHANGED <<bodyVars, siteVars, tplVars, callVars, stageVars, flightVars>>

\* a build started by queueBuild resolves or rejects: .then or .catch, and .finally
WatchSettle ==
  /\ building > 0
  /\ Looped(finally(Loop, watchClock + 1), FALSE)
  /\ \E rejected \in BOOLEAN : buildsFailed' = buildsFailed + (IF rejected THEN 1 ELSE 0)
  /\ waiting' = 0
  /\ UNCHANGED <<triggers, lastTrigger>>
  /\ UNCHANGED <<bodyVars, siteVars, tplVars, callVars, stageVars, flightVars>>

\* a running build renders a page: renderTemplate loads the template of the
\* configuration, for the homepage the homepage template
WatchLoad ==
  /\ building > 0
  /\ \/ loadTemplate(TemplatePath)
     \/ loadHomepageTemplate(HomepageTemplatePath, TemplatePath)
  /\ UNCHANGED nonCacheVars

WatchLoaded ==
  /\ building > 0
  /\ LoadSettle

InitWatch ==
  /\ BodyIdle /\ SiteIdle /\ TplIdle /\ CallIdle /\ StageIdle /\ FlightIdle
  /\ CachesEmpty
  /\ templateFiles = [p \in TemplatePaths |-> <<"a">>]
  /\ isBuilding = FALSE /\ shouldRebuild = FALSE /\ building = 0 /\ buildsStarted = 0
  /\ buildsFailed = 0 /\ triggers = 0 /\ waiting = 0 /\ lastTrigger = 0 /\ lastStart = 0
  /\ watchClock = 0

NextWatch ==
  \/ WatchTrigger
  \/ WatchSettle
  \/ WatchLoad
  \/ WatchLoaded

SpecWatch == InitWatch /\ [][NextWatch]_vars

\* every build settles: build() returns a promise that resolves or rejects
SpecWatchFair == SpecWatch /\ WF_vars(WatchSettle)

AtMostOneBuild == building <= 1

Coalesced ==
  \* a trigger during a build starts no build
  /\ (triggers' # triggers /\ building > 0) => buildsStarted' = buildsStarted
  \* when the build settles, the triggers that arrived during it start one build
  \* if there are any, after the build has settled, and none otherwise
  /\ (triggers' = triggers /\ watchClock' # watchClock)
       => /\ buildsStarted' = buildsStarted + (IF waiting > 0 THEN 1 ELSE 0)
          /\ building' = IF waiting > 0 THEN 1 ELSE 0
          /\ waiting' = 0

\* C23: at most one build started by queueBuild runs at any time; the triggers
\* that arrive during a build, however many, start no build while it runs and
\* exactly one when it has settled
C23_TriggersCoalesced == []AtMostOneBuild /\ [][Coalesced]_vars

\* three triggers, two builds: the second and third trigger arrived during the
\* first build and started the second one together
C23_Witness ==
  triggers = 3 /\ buildsStarted = 2 /\ building = 1 /\ waiting = 0 /\ lastStart > lastTrigger

WatchLoopIdle == ~isBuilding /\ ~shouldRebuild

\* C30: when the triggers have stopped and every build settles, the loop comes
\* to rest with isBuilding and shouldRebuild false; at rest the last build was
\* started at or after the last trigger; and isBuilding is true only while a
\* build runs, whether or not builds fail
C30_LoopComesToRest ==
  /\ <>[]WatchLoopIdle
  /\ [](WatchLoopIdle => lastStart >= lastTrigger)
  /\ [](isBuilding => building > 0)

\* the loop at rest after a failed build and a trigger that arrived during it
C30_Witness ==
  WatchLoopIdle /\ buildsFailed > 0 /\ buildsStarted = 2 /\ triggers = 2 /\ building = 0


(***************************************************************************)
(* Writing front matter (translations.ts), and reading it back.            *)
(***************************************************************************)
MaxValueLen == 3

\* the entries of formatFrontMatter, in its order
FormattedKeys ==
  << <<"title">>, <<"description">>, <<"sidebarTitle">>, <<"sidebarSummary">>,
     <<"backLinkHref">>, <<"backLinkLabel">>, <<"slug">>, <<"translationOf">>,
     <<"noindex">> >>

PlainKeys ==
  { <<"slug">>, <<"lang">>, <<"translationOf">>, <<"backLinkHref">>, <<"backLinkLabel">>,
    <<"translate">>, <<"noindex">> }

RECURSIVE ReplaceEach(_, _, _)
\* s.replace(/a/g, repl) for the one-atom pattern a
ReplaceEach(s, a, repl) ==
  IF s = <<>> THEN <<>>
  ELSE (IF s[1] = a THEN repl ELSE <<s[1]>>) \o ReplaceEach(Tail(s), a, repl)

\* /[:"]/g.test(value) || /^\s|\s$/.test(value)
NeedsQuotes(value) ==
  \/ \E i \in 1..Len(value) : value[i] \in {":", Quote}
  \/ value # <<>> /\ (value[1] \in WhiteSpace \/ value[Len(value)] \in WhiteSpace)

formatMetaValue(key, value) ==
  IF key \in PlainKeys THEN value
  ELSE IF ~NeedsQuotes(value) THEN value
  ELSE <<Quote>>
       \o ReplaceEach(ReplaceEach(value, BackSlash, <<BackSlash, BackSlash>>),
                      Quote, <<BackSlash, Quote>>)
       \o <<Quote>>

\* String(meta.noindex) for the flag, else the string of the field
EntryValue(meta, key) ==
  IF key = <<"noindex">>
  THEN (IF meta[key] = TrueValue THEN <<"true">>
        ELSE IF meta[key] = FalseValue THEN <<"false">> ELSE Undefined)
  ELSE meta[key]

RECURSIVE FormatEntries(_, _)
\* the lines pushed for the entries from the i-th on
FormatEntries(meta, i) ==
  IF i > Len(FormattedKeys) THEN <<>>
  ELSE LET key == FormattedKeys[i]
           value == EntryValue(meta, key)
       IN (IF value # Undefined
           THEN << key \o <<":", " ">> \o formatMetaValue(key, value) >> ELSE <<>>)
          \o FormatEntries(meta, i + 1)

formatFrontMatter(meta) ==
  Join(<< <<"---">> >> \o FormatEntries(meta, 1) \o << <<"---">> >>, "\n")

\* `${frontMatter}\n\n${translatedBody}\n`
WrittenMarkdown(meta, translatedBody) ==
  formatFrontMatter(meta) \o <<"\n", "\n">> \o translatedBody \o <<"\n">>

\* the values of a field: up to MaxValueLen of a letter, a colon, a quote, a
\* backslash and a blank
ValueAtoms == {"a", ":", Quote, BackSlash, " "}
MetaValues(maxLen) == UNION { [1..n -> ValueAtoms] : n \in 0..maxLen }

StringKeys == { FormattedKeys[i] : i \in 1..8 }

\* a metadata record of the keys of formatFrontMatter: `others` in every string
\* field but `key`, which holds `value`
MetaWith(key, value, others, noindex) ==
  [k \in StringKeys \cup {<<"noindex">>} |->
     IF k = key THEN value ELSE IF k = <<"noindex">> THEN noindex ELSE others]

InitRoundTrip ==
  /\ BodyIdle /\ SiteIdle /\ TplIdle /\ StageIdle /\ FlightIdle /\ CacheIdle /\ WatchIdle
  /\ callPc = <<"formatFrontMatter", "called">>
  /\ callArgs \in [key : StringKeys, value : MetaValues(MaxValueLen),
                   others : {Undefined, <<"a">>},
                   noindex : {Undefined, TrueValue},
                   body : {<<"a">>, <<"---", "\n", "a">>}]
  /\ callResult = <<>>

\* the document is written: formatFrontMatter(meta), and the body after it
FormatFrontMatterCall ==
  /\ callPc = <<"formatFrontMatter", "called">>
  /\ callResult' = << WrittenMarkdown(MetaWith(callArgs.key, callArgs.value,
                                               callArgs.others, callArgs.noindex),
                                      callArgs.body) >>
  /\ callPc' = <<"formatFrontMatter", "written">>
  /\ UNCHANGED <<callArgs, nonCallVars>>

\* the document is read: extractFrontMatter(raw)
ReadBackCall ==
  /\ callPc = <<"formatFrontMatter", "written">>
  /\ callResult' = << extractFrontMatter(callResult[1]) >>
  /\ callPc' = <<"formatFrontMatter", "read">>
  /\ UNCHANGED <<callArgs, nonCallVars>>

NextRoundTrip == FormatFrontMatterCall \/ ReadBackCall

SpecRoundTrip == InitRoundTrip /\ [][NextRoundTrip]_vars

ReadBack == callPc = <<"formatFrontMatter", "read">>

\* C25: the value of each string field that formatFrontMatter writes is the
\* value extractFrontMatter reads from the written document
C25_RoundTrip ==
  ReadBack =>
    /\ callArgs.key \in DOMAIN callResult[1].meta
    /\ callResult[1].meta[callArgs.key] = callArgs.value


(***************************************************************************)
(* The metadata of a translated document, as the next build reads it.      *)
(***************************************************************************)
\* a PageMeta record as the FrontMatter object that formatFrontMatter is given
MetaEntries(m) ==
  [k \in StringKeys \cup { <<"noindex">>, <<"ogImage">>, <<"twitterImage">> } |->
     IF k = <<"title">> THEN m.title
     ELSE IF k = <<"description">> THEN m.description
     ELSE IF k = <<"sidebarTitle">> THEN m.sidebarTitle
     ELSE IF k = <<"sidebarSummary">> THEN m.sidebarSummary
     ELSE IF k = <<"backLinkHref">> THEN m.backLinkHref
     ELSE IF k = <<"backLinkLabel">> THEN m.backLinkLabel
     ELSE IF k = <<"slug">> THEN m.slug
     ELSE IF k = <<"translationOf">> THEN m.translationOf
     ELSE IF k = <<"ogImage">> THEN m.ogImage
     ELSE IF k = <<"twitterImage">> THEN m.twitterImage
     ELSE IF m.noindex = "true" THEN TrueValue
     ELSE IF m.noindex = "false" THEN FalseValue ELSE Undefined]

\* source documents with and without the fields that are not translated
CarryMetas ==
  { [Translate EXCEPT !.lang = EN, !.title = t, !.backLinkHref = h, !.noindex = n,
                      !.ogImage = o, !.twitterImage = w, !.translationOf = g] :
      t \in {Undefined, <<"a">>}, h \in {Undefined, <<"/", "b">>},
      n \in {"absent", "true", "false"}, o \in {Undefined, <<"o", ".png">>},
      w \in {Undefined, <<"w", ".png">>}, g \in {Undefined, <<"home">>} }

\* the TranslatePlan of page.md with the metadata, for fr
CarryPlan(meta) ==
  ScanFile(CfgEnFr, TRUE, (PageMd :> [meta |-> meta, body |-> <<"a">>, mtime |-> 0]), PageMd)[1]

InitCarry ==
  /\ BodyIdle /\ SiteIdle /\ TplIdle /\ StageIdle /\ FlightIdle /\ CacheIdle /\ WatchIdle
  /\ callPc = <<"translateMarkdownPlan", "called">>
  /\ callArgs \in [plan : { CarryPlan(meta) : meta \in CarryMetas }]
  /\ callResult = <<>>

\* translateMarkdownPlan(plan, translator, config) resolves with the markdown
TranslateMarkdownPlanCall ==
  /\ callPc = <<"translateMarkdownPlan", "called">>
  /\ callResult' = << WrittenMarkdown(MetaEntries(TranslatedMeta(callArgs.plan)),
                                      translateMarkdownBody(ServiceKind, callArgs.plan.sourceBody)) >>
  /\ callPc' = <<"translateMarkdownPlan", "written">>
  /\ UNCHANGED <<callArgs, nonCallVars>>

\* the next build reads the written document
ReadTranslatedCall ==
  /\ callPc = <<"translateMarkdownPlan", "written">>
  /\ callResult' = << extractFrontMatter(callResult[1]) >>
  /\ callPc' = <<"translateMarkdownPlan", "read">>
  /\ UNCHANGED <<callArgs, nonCallVars>>

NextCarry == TranslateMarkdownPlanCall \/ ReadTranslatedCall

SpecCarry == InitCarry /\ [][NextCarry]_vars

FieldOf(meta, key) == IF key \in DOMAIN meta THEN meta[key] ELSE Undefined

\* C27: the translated document, as it is read, has the source's backLinkHref,
\* noindex, ogImage, twitterImage and translationOf (the source's values after
\* the site defaults and the plan's group key)
C27_UntranslatedFieldsCarried ==
  callPc = <<"translateMarkdownPlan", "read">> =>
    \A key \in { <<"backLinkHref">>, <<"noindex">>, <<"ogImage">>, <<"twitterImage">>,
                 <<"translationOf">> } :
      FieldOf(callResult[1].meta, key) = MetaEntries(PlanMeta(callArgs.plan))[key]


(***************************************************************************)
(* A translated document in the render plans of the build that follows.    *)
(***************************************************************************)
\* source documents in the default language of the two keyed configurations
RejoinDocs ==
  { Doc(p, [Translate EXCEPT !.lang = l, !.slug = g, !.translationOf = t], <<"a">>) :
      p \in {PageMd, SubPageMd, <<"index", ".md">>}, l \in {EN, NL},
      g \in {Undefined, <<"home">>}, t \in {Undefined, <<"start">>} }

InitRejoin ==
  /\ BodyIdle /\ SiteIdle /\ TplIdle /\ StageIdle /\ FlightIdle /\ CacheIdle /\ WatchIdle
  /\ callPc = <<"ensureTranslations", "called">>
  /\ callArgs \in [config : {CfgEnFr, CfgNlFr}, source : RejoinDocs]
  /\ callResult = <<>>

SourceFile == (callArgs.source.path :> [meta |-> callArgs.source.meta,
                                         body |-> callArgs.source.body, mtime |-> 0])

\* ensureTranslations(config, contentDir, true): the documents it writes, each
\* with the language it was translated to
EnsureTranslationsCall ==
  /\ callPc = <<"ensureTranslations", "called">>
  /\ LET translationPlans == ScanFile(callArgs.config, TRUE, SourceFile, callArgs.source.path)
     IN callResult' = [i \in 1..Len(translationPlans) |->
                         [path |-> PlanTarget(translationPlans[i]),
                          targetLang |-> translationPlans[i].targetLang,
                          document |-> translateMarkdownPlan(translationPlans[i], 0).document]]
  /\ callPc' = <<"ensureTranslations", "returned">>
  /\ UNCHANGED <<callArgs, nonCallVars>>

\* build(): createPlan of the source and of each written document
CreatePlansCall ==
  /\ callPc = <<"ensureTranslations", "returned">>
  /\ LET defaultLang == getDefaultLang(callArgs.config)
         supportedLangs == getSupportedLangs(callArgs.config, defaultLang)
     IN callResult' =
          [i \in 1..Len(callResult) |->
             [targetLang |-> callResult[i].targetLang,
              source |-> createPlan(callArgs.source.path, callArgs.source, callArgs.config,
                                    defaultLang, supportedLangs),
              plan |-> createPlan(callResult[i].path, callResult[i].document,
                                  callArgs.config, defaultLang, supportedLangs)]]
  /\ callPc' = <<"createPlan", "returned">>
  /\ UNCHANGED <<callArgs, nonCallVars>>

NextRejoin == EnsureTranslationsCall \/ CreatePlansCall

SpecRejoin == InitRejoin /\ [][NextRejoin]_vars

\* C26: the render plan of a translated document has the language the
\* document was translated to, and the group key of its source's render plan
C26_TranslationJoinsItsSource ==
  callPc = <<"createPlan", "returned">> =>
    \A i \in 1..Len(callResult) :
      /\ callResult[i].plan.meta.lang = callResult[i].targetLang
      /\ GroupKey(callResult[i].plan) = GroupKey(callResult[i].source)


(***************************************************************************)
(* The body in the rendered page.                                          *)
(***************************************************************************)
MaxInsertLen == 2

\* rendered bodies with dollar signs, and with the text of a placeholder
DollarAtoms == {"a", "$", "&", "1", "{{TITLE}}"}
DollarBodies(maxLen) == UNION { [1..n -> DollarAtoms] : n \in 0..maxLen }
InsertTemplates(maxLen) ==
  UNION { [1..n -> {"a", "{{TITLE}}", "{{BODY}}"}] : n \in 0..maxLen }

InitInsert ==
  /\ BodyIdle /\ SiteIdle /\ TplIdle /\ StageIdle /\ FlightIdle /\ CacheIdle /\ WatchIdle
  /\ callPc = <<"renderTemplate", "called">>
  /\ callArgs \in [template : InsertTemplates(MaxInsertLen), body : DollarBodies(MaxInsertLen),
                   meta : { PageMetaOf([EmptyMeta EXCEPT !.title = t]) :
                              t \in {<<"t">>, <<"{{BODY}}">>} }]
  /\ callResult = <<>>

\* renderTemplate, lines 167-176: `rendered` after the replacements
SubstituteCall ==
  /\ callPc = <<"renderTemplate", "called">>
  /\ callResult' = << SubstitutePlaceholders(callArgs.template, callArgs.body, callArgs.meta) >>
  /\ callPc' = <<"renderTemplate", "substituted">>
  /\ UNCHANGED <<callArgs, nonCallVars>>

NextInsert == SubstituteCall

SpecInsert == InitInsert /\ [][NextInsert]_vars

\* the template with the body put, as it is, where {{BODY}} stands
BodyVerbatim(template, body) ==
  Flatten([i \in 1..Len(template) |->
             IF template[i] = "{{BODY}}" THEN body ELSE <<template[i]>>])

\* C28: the rendered text holds the body as it is at each {{BODY}} of the
\* template: it is the text that the other replacements make of the template
\* with the body put in verbatim afterwards
C28_BodyVerbatim ==
  callPc = <<"renderTemplate", "substituted">> =>
    callResult[1] =
      BodyVerbatim(SubstitutePlaceholders(callArgs.template, <<"{{BODY}}">>, callArgs.meta),
                   callArgs.body)


(***************************************************************************)
(* The translator of an invocation, in a process of several invocations.   *)
(***************************************************************************)
\* the invocation has asked for its translator
HasAskedForTranslator ==
  /\ mode = "translate" /\ runs > 0 /\ pc \notin {"idle", "ensure"}
  /\ runConfig.translations

\* C29: an invocation of ensureTranslations has a translator, and goes on to
\* translate, exactly when its own configuration has an API key
C29_TranslatorOfOwnConfig ==
  HasAskedForTranslator => ((translatorInstance = "translator") <=> runConfig.apiKey)

====
